---- MODULE Spec2Model ----
(***************************************************************************)
(* Model of the retrieval-and-answering engine of mintlify-mcp:            *)
(*   - KnowledgeRetriever      (backends/embedded/retriever.ts)            *)
(*   - EmbeddedKnowledge       (backends/embedded/knowledge.ts)            *)
(*   - searchKnowledge tool    (backends/embedded/knowledge.ts, the tool   *)
(*                              section)                                   *)
(*   - EmbeddedBackend         (backends/embedded/instructions.ts, the     *)
(*                              backend section)                           *)
(*   - backend registry        (backends/registry.ts)                      *)
(* Scores are integers in thousandths (0.015 is 15).                       *)
(***************************************************************************)
EXTENDS Integers, Sequences, FiniteSets, TLC

VARIABLES
    \* one KnowledgeRetriever.retrieve() call
    rPc,        \* "idle" | "searching" | "done"
    rN,         \* numDocuments of the call
    rHits,      \* what knowledge.search() resolved to
    rResult,    \* what retrieve() settled to
    \* one EmbeddedKnowledge instance and the LanceDB directory at its dbPath
    kDb,        \* this.db !== null
    kTable,     \* this.table !== null
    kReranker,  \* this.reranker !== null
    diskTable,  \* the table "docs" exists in the directory
    diskRows,   \* its rows, in insertion order
    diskFts,    \* it has the full-text index on content
    kOutcome,   \* how the last store operation settled
    \* one EmbeddedKnowledge.search() call
    sPc,        \* "idle" | "running" | "done"
    sN,         \* numDocuments of the call
    sTrace,     \* the embedder and table calls it made, with their outcomes
    sAnswer,    \* what the last table query of the call returned
    sResult,    \* what search() settled to
    \* one EmbeddedBackend and its current ask() call
    bInitialized,   \* this.initialized
    bKnowledge,     \* this.knowledge !== null
    bRetriever,     \* this.retriever !== null
    aPc,            \* "idle" | "generating" | "tools" | "done"
    aEmptyAtCall,   \* the store held no documents when ask() was called
    aSteps,         \* steps of generateText completed
    aLlmCalls,      \* language-model calls of this ask()
    aToolCalls,     \* searchKnowledge invocations of this ask()
    aPending,       \* tool calls of the current step still to execute
    aText,          \* text of the last model response
    aRetrieved,     \* how retriever.retrieve() settled in the last invocation
    aToolResult,    \* how the last execute() settled
    aOutcome,       \* how ask() settled
    \* the backend registry
    regCache,       \* cache: Map<BackendType, BackendFactory>
    regLoads,       \* the loadBackend() calls, by caller
    \* one MintlifyBackend and its ask() calls
    mMessages,      \* this.state.messages
    mThreadId,      \* this.state.threadId
    mAsks,          \* the ask() calls, by caller
    \* one MintlifyBackend.parseStreamedResponse() call
    pStream,        \* rawResponse, as its lines
    pParsed,        \* what the call returned
    \* the isAvailable() calls, one backend of each variant
    vProbes,
    \* one EmbeddedBackend, the stores it opened and the calls that use them
    lInitialized,   \* this.initialized
    lKnowledge,     \* this.knowledge: the store it references, 0 for null
    lRetriever,     \* this.retriever: the store it wraps, 0 for null
    lStores,        \* the stores created so far: "open" or "closed"
    lCalls,         \* the ask() and isAvailable() calls, by caller
    \* the overlapping addDocument() calls on the EmbeddedKnowledge instance
    addCalls

retrieverVars == <<rPc, rN, rHits, rResult>>

knowledgeVars ==
    <<kDb, kTable, kReranker, diskTable, diskRows, diskFts, kOutcome,
      sPc, sN, sTrace, sAnswer, sResult>>

backendVars ==
    <<bInitialized, bKnowledge, bRetriever, aPc, aEmptyAtCall, aSteps,
      aLlmCalls, aToolCalls, aPending, aText, aRetrieved, aToolResult, aOutcome>>

registryVars == <<regCache, regLoads>>

mintlifyVars == <<mMessages, mThreadId, mAsks>>

parserVars == <<pStream, pParsed>>

probeVars == <<vProbes>>

lifecycleVars == <<lInitialized, lKnowledge, lRetriever, lStores, lCalls>>

seedingVars == <<addCalls>>

vars ==
    <<retrieverVars, knowledgeVars, backendVars, registryVars, mintlifyVars,
      parserVars, probeVars, lifecycleVars, seedingVars>>

\* what the actions of one component leave alone
notRetrieverVars ==
    <<knowledgeVars, backendVars, registryVars, mintlifyVars, parserVars, probeVars, lifecycleVars, seedingVars>>
notKnowledgeVars ==
    <<retrieverVars, backendVars, registryVars, mintlifyVars, parserVars, probeVars, lifecycleVars, seedingVars>>
notBackendVars == <<retrieverVars, registryVars, mintlifyVars, parserVars, probeVars, lifecycleVars, seedingVars>>
notRegistryVars ==
    <<retrieverVars, knowledgeVars, backendVars, mintlifyVars, parserVars, probeVars, lifecycleVars, seedingVars>>
notMintlifyVars ==
    <<retrieverVars, knowledgeVars, backendVars, registryVars, parserVars, probeVars, lifecycleVars, seedingVars>>
notParserVars ==
    <<retrieverVars, knowledgeVars, backendVars, registryVars, mintlifyVars,
      probeVars, lifecycleVars, seedingVars>>
notProbeVars ==
    <<retrieverVars, knowledgeVars, backendVars, registryVars, mintlifyVars,
      parserVars, lifecycleVars, seedingVars>>
notLifecycleVars ==
    <<retrieverVars, knowledgeVars, backendVars, registryVars, mintlifyVars,
      parserVars, probeVars, seedingVars>>
notSeedingVars ==
    <<retrieverVars, backendVars, registryVars, mintlifyVars, parserVars,
      probeVars, lifecycleVars>>

-----------------------------------------------------------------------------
(* SEARCH_CONFIG, config.ts *)

MIN_SCORE == 15
MAX_CHUNKS_PER_URL == 2
DEFAULT_NUM_DOCS == 10
RETRIEVAL_MULTIPLIER == 2
MAX_STEPS == 3

-----------------------------------------------------------------------------
(* Bounds of the model *)

MaxHits == 4        \* longest enumerated search result
MaxN == 3           \* largest enumerated numDocuments (besides the default)

-----------------------------------------------------------------------------
(* Values *)

Absent == "<absent>"        \* a key that is not in a metadata object
NoScore == -1               \* score === undefined

Min(a, b) == IF a <= b THEN a ELSE b

\* DocumentMetadata: source_url?, title?, and internal bookkeeping keys
Meta(url, title, chunk) == [source_url |-> url, title |-> title, chunk |-> chunk]

EmptyMeta == Meta(Absent, Absent, Absent)

\* SearchResult {name, content, metadata, score?}
Hit(name, content, meta, score) ==
    [name |-> name, content |-> content, metadata |-> meta, score |-> score]

\* CleanedResult {name, content, metadata: {source_url?, title?}}
Cleaned(name, content, url, title) ==
    [name |-> name, content |-> content,
     metadata |-> [source_url |-> url, title |-> title]]

-----------------------------------------------------------------------------
(* KnowledgeRetriever, retriever.ts *)

\* cleanMetadata: only string-valued source_url and title survive
cleanMetadata(metadata) ==
    [source_url |-> metadata.source_url, title |-> metadata.title]

\* mutant: the document name alone is the key
SourceKeyNameOnly(result) == result.name

\* result.metadata?.source_url || result.name
SourceKey(result) ==
    IF result.metadata.source_url \notin {Absent, ""}
    THEN result.metadata.source_url
    ELSE result.name

\* results.some((r) => r.score !== undefined)
hasScores(results) == \E i \in 1..Len(results) : results[i].score # NoScore

\* mutant: a hit without a score does not pass
PassesScoreScoredOnly(r) == r.score # NoScore /\ r.score >= MIN_SCORE

\* the callback of results.filter in filterByScore
PassesScore(r) == IF r.score = NoScore THEN TRUE ELSE r.score >= MIN_SCORE

RECURSIVE FilterSeq(_, _)
FilterSeq(results, i) ==
    IF i > Len(results) THEN <<>>
    ELSE IF PassesScore(results[i])
         THEN <<results[i]>> \o FilterSeq(results, i + 1)
         ELSE FilterSeq(results, i + 1)

filterByScore(results) ==
    IF ~hasScores(results) THEN results ELSE FilterSeq(results, 1)

\* seenUrls.get(sourceUrl) || 0
SeenCount(seenUrls, key) ==
    IF key \in DOMAIN seenUrls THEN seenUrls[key] ELSE 0

\* mutant: count > MAX_CHUNKS_PER_URL instead of >=
UnderCapOffByOne(count) == ~(count > MAX_CHUNKS_PER_URL)

\* may the loop of deduplicateAndClean accept a hit whose key was seen
\* `count` times
UnderCap(count) == ~(count >= MAX_CHUNKS_PER_URL)

RECURSIVE DedupWalk(_, _, _, _, _)
DedupWalk(results, i, seenUrls, finalResults, numDocuments) ==
    IF i > Len(results) THEN finalResults
    ELSE IF Len(finalResults) >= numDocuments THEN finalResults
    ELSE LET result == results[i]
             sourceUrl == SourceKey(result)
             count == SeenCount(seenUrls, sourceUrl)
         IN  IF ~UnderCap(count)
             THEN DedupWalk(results, i + 1, seenUrls, finalResults, numDocuments)
             ELSE DedupWalk(results, i + 1,
                     [k \in (DOMAIN seenUrls) \cup {sourceUrl} |->
                         IF k = sourceUrl THEN count + 1 ELSE seenUrls[k]],
                     Append(finalResults,
                         [name |-> result.name, content |-> result.content,
                          metadata |-> cleanMetadata(result.metadata)]),
                     numDocuments)

deduplicateAndClean(results, numDocuments) ==
    DedupWalk(results, 1, <<>>, <<>>, numDocuments)

\* mutant: the fallback passes all raw hits on
SliceAll(results, n) == results

\* results.slice(0, numDocuments)
Slice0(results, n) == SubSeq(results, 1, Min(n, Len(results)))

Null == [kind |-> "null", list |-> <<>>]
Pending == [kind |-> "pending", list |-> <<>>]
Raised == [kind |-> "throw", list |-> <<>>]
List(l) == [kind |-> "list", list |-> l]

\* mutant: null when the score filter removed every hit
AllFilteredNull(results, numDocuments) == Null

\* what retrieve() does when all raw hits were removed by the score filter
AllFilteredResult(results, numDocuments) ==
    List(deduplicateAndClean(Slice0(results, numDocuments), numDocuments))

\* the body of retrieve() after `await this.knowledge.search(...)`
Retrieve(results, numDocuments) ==
    IF Len(results) = 0 THEN Null
    ELSE LET filtered == filterByScore(results)
         IN  IF Len(filtered) = 0
             THEN AllFilteredResult(results, numDocuments)
             ELSE List(deduplicateAndClean(filtered, numDocuments))

-----------------------------------------------------------------------------
(* Inputs of the retriever: what a knowledge.search() can resolve to *)

HitKinds ==
    { <<"A", EmptyMeta>>,
      <<"C", EmptyMeta>>,
      <<"C", Meta("A", "T", "1")>>,
      <<"A", Meta("", Absent, Absent)>> }

HitScores == {NoScore, 10, MIN_SCORE}

\* rank i carries content i: chunks differ in content
HitsAt(i) == { Hit(k[1], i, k[2], s) : k \in HitKinds, s \in HitScores }

RECURSIVE HitSeqs(_)
HitSeqs(n) ==
    IF n = 0 THEN { <<>> }
    ELSE LET shorter == HitSeqs(n - 1)
         IN  shorter \cup
             { Append(s, h) : s \in { t \in shorter : Len(t) = n - 1 },
                              h \in HitsAt(n) }

\* the scenario of the specification: A(0.9), A(0.8), A(0.7), B(0.6)
ScenarioHits ==
    << Hit("chunk1", 1, Meta("A", Absent, Absent), 900),
       Hit("chunk2", 2, Meta("A", Absent, Absent), 800),
       Hit("chunk3", 3, Meta("A", Absent, Absent), 700),
       Hit("chunk4", 4, Meta("B", Absent, Absent), 600) >>

SearchOutcomes == HitSeqs(MaxHits) \cup {ScenarioHits}

NumDocs == (0..MaxN) \cup {DEFAULT_NUM_DOCS}

-----------------------------------------------------------------------------
(* retrieve(query, numDocuments) as a process *)

RetrieverIdle ==
    /\ rPc = "idle"
    /\ rN = 0
    /\ rHits = <<>>
    /\ rResult = Pending

\* retrieve() is called and awaits knowledge.search(query, n * MULTIPLIER)
RetrieveCall ==
    /\ rPc = "idle"
    /\ \E n \in NumDocs : rN' = n
    /\ rPc' = "searching"
    /\ rHits' = <<>>
    /\ rResult' = Pending
    /\ UNCHANGED notRetrieverVars

\* search resolves; the rest of retrieve() runs without another await
SearchResolves ==
    /\ rPc = "searching"
    /\ \E hits \in SearchOutcomes :
          /\ rHits' = hits
          /\ rResult' = Retrieve(hits, rN)
    /\ rPc' = "done"
    /\ UNCHANGED rN
    /\ UNCHANGED notRetrieverVars

\* search rejects; retrieve() has no handler, the rejection propagates
SearchRejects ==
    /\ rPc = "searching"
    /\ rResult' = Raised
    /\ rPc' = "done"
    /\ UNCHANGED <<rN, rHits>>
    /\ UNCHANGED notRetrieverVars

\* the caller takes the result; the retriever keeps no state between calls
RetrieveReturn ==
    /\ rPc = "done"
    /\ rPc' = "idle"
    /\ rResult' = Pending
    /\ rHits' = <<>>
    /\ rN' = 0
    /\ UNCHANGED notRetrieverVars

RetrieverNext ==
    \/ RetrieveCall
    \/ SearchResolves
    \/ SearchRejects
    \/ RetrieveReturn


-----------------------------------------------------------------------------
(* EmbeddedKnowledge, knowledge.ts *)

MaxRows == 2        \* most rows the table is grown to
MaxLimit == 2       \* largest enumerated numDocuments of search()

MetaKeys == {"source_url", "title", "chunk"}

\* Document {name, content, metadata?}
Doc(name, content, meta) == [name |-> name, content |-> content, metadata |-> meta]

\* JSON.stringify(doc.metadata || {}): the keys that are set, with their values
Stringify(meta) == { <<k, meta[k]>> : k \in { x \in MetaKeys : meta[x] # Absent } }

\* mutant: the stored string is never parsed
parseMetadataEmpty(str) == [k \in MetaKeys |-> Absent]

\* parseMetadata: JSON.parse of the stored string
parseMetadata(str) ==
    [k \in MetaKeys |->
        IF \E kv \in str : kv[1] = k
        THEN (CHOOSE kv \in str : kv[1] = k)[2]
        ELSE Absent]

\* LanceRecord {id, name, content, metadata, vector}; the generated id and the
\* embedding vector are not read back by the wrapper
LanceRecord(doc) ==
    [name |-> doc.name, content |-> doc.content, metadata |-> Stringify(doc.metadata)]

RECURSIVE Records(_)
Records(docs) ==
    IF docs = <<>> THEN <<>>
    ELSE <<LanceRecord(Head(docs))>> \o Records(Tail(docs))

\* hasDocuments(): false without a table handle
hasDocuments == kTable /\ Len(diskRows) > 0

\* countDocuments(): 0 without a table handle
countDocuments == IF ~kTable THEN 0 ELSE Len(diskRows)

\* isInitialized()
isInitialized == kDb

\* the documents offered to the store
DocSet ==
    { Doc("x", "hello", Meta(Absent, "T", Absent)),
      Doc("y", "world", Meta("A", Absent, "1")) }

Batches == { <<>> } \cup { <<d>> : d \in DocSet } \cup { <<d, e>> : d \in DocSet, e \in DocSet }

\* a settled promise of search(): a list of SearchResult with the mode that
\* produced it, or a rejection
SearchList(mode, l) == [kind |-> "list", mode |-> mode, list |-> l]
SearchRaised == [kind |-> "throw", mode |-> "none", list |-> <<>>]
SearchPending == [kind |-> "pending", mode |-> "none", list |-> <<>>]

\* _relevance_score of the fused list (higher is better) and _distance of the
\* nearest-neighbour list (lower is better), in thousandths
RelevanceScores == {32, 10}
Distances == {10, 400}

\* rows of a query answer: [row |-> row number, score |-> score column]
\* results.map(...) of search(): _relevance_score is the score
\* results.map(...) of vectorSearch(): _distance is the score
ToSearchResults(answer) ==
    [i \in 1..Len(answer) |->
        Hit(diskRows[answer[i].row].name, diskRows[answer[i].row].content,
            parseMetadata(diskRows[answer[i].row].metadata), answer[i].score)]

\* the answers of table.query().fullTextSearch().nearestTo().rerank().limit(k)
HybridAnswers(k) ==
    { a \in UNION { [1..m -> [row : 1..Len(diskRows), score : RelevanceScores]] :
                    m \in {Min(k, Len(diskRows))} } :
        /\ \A i, j \in 1..Len(a) : i # j => a[i].row # a[j].row
        /\ \A i \in 1..(Len(a) - 1) : a[i].score >= a[i + 1].score }

\* the answers of table.query().nearestTo().limit(k)
VectorAnswers(k) ==
    { a \in UNION { [1..m -> [row : 1..Len(diskRows), score : Distances]] :
                    m \in {Min(k, Len(diskRows))} } :
        /\ \A i, j \in 1..Len(a) : i # j => a[i].row # a[j].row
        /\ \A i \in 1..(Len(a) - 1) : a[i].score <= a[i + 1].score }

\* the limit search() gives the hybrid query
HybridLimit(numDocuments) == numDocuments * RETRIEVAL_MULTIPLIER

\* the limit vectorSearch() gives the nearest-neighbour query
VectorLimit(numDocuments) == numDocuments

KnowledgeFresh ==
    /\ kDb = FALSE
    /\ kTable = FALSE
    /\ kReranker = FALSE
    /\ diskTable = FALSE
    /\ diskRows = <<>>
    /\ diskFts = FALSE
    /\ kOutcome = "none"
    /\ sPc = "idle"
    /\ sN = 0
    /\ sTrace = <<>>
    /\ sAnswer = <<>>
    /\ sResult = SearchPending

searchVars == <<sPc, sN, sTrace, sAnswer, sResult>>

\* initialize(): connect, create the reranker, open the table when it exists;
\* a failure while listing or opening is swallowed
KInitialize ==
    /\ sPc = "idle"
    /\ \E connectOk \in BOOLEAN, openOk \in BOOLEAN :
          IF ~connectOk
          THEN /\ kOutcome' = "throw"
               /\ UNCHANGED <<kDb, kReranker, kTable>>
          ELSE /\ kDb' = TRUE
               /\ kReranker' = TRUE
               /\ kTable' = IF diskTable /\ openOk THEN TRUE ELSE kTable
               /\ kOutcome' = "ok"
    /\ UNCHANGED <<diskTable, diskRows, diskFts, searchVars>>
    /\ UNCHANGED notKnowledgeVars

\* the insertion shared by addDocument and addDocuments, after the embedding:
\* create the table and its full-text index, or add to the table
Insert(records, tableOk, indexOk) ==
    IF ~kTable
    THEN IF diskTable \/ ~tableOk
         THEN \* createTable rejects (the table exists, or the write fails)
              /\ kOutcome' = "throw"
              /\ UNCHANGED <<kTable, diskTable, diskRows, diskFts>>
         ELSE /\ kTable' = TRUE
              /\ diskTable' = TRUE
              /\ diskRows' = records
              /\ diskFts' = indexOk
              /\ kOutcome' = IF indexOk THEN "ok" ELSE "throw"
    ELSE IF ~tableOk
         THEN /\ kOutcome' = "throw"
              /\ UNCHANGED <<kTable, diskTable, diskRows, diskFts>>
         ELSE /\ diskRows' = diskRows \o records
              /\ kOutcome' = "ok"
              /\ UNCHANGED <<kTable, diskTable, diskFts>>

\* addDocument(doc)
AddDocument ==
    /\ sPc = "idle"
    /\ Len(diskRows) < MaxRows
    /\ \E doc \in DocSet, embedOk \in BOOLEAN, tableOk \in BOOLEAN, indexOk \in BOOLEAN :
          IF ~kDb \/ ~embedOk
          THEN /\ kOutcome' = "throw"
               /\ UNCHANGED <<kTable, diskTable, diskRows, diskFts>>
          ELSE Insert(<<LanceRecord(doc)>>, tableOk, indexOk)
    /\ UNCHANGED <<kDb, kReranker, searchVars>>
    /\ UNCHANGED notKnowledgeVars

\* addDocuments(docs) on a given batch
AddDocumentsOf(docs) ==
    /\ sPc = "idle"
    /\ \E embedOk \in BOOLEAN, tableOk \in BOOLEAN, indexOk \in BOOLEAN :
          /\ Len(diskRows) + Len(docs) <= MaxRows
          /\ IF ~kDb
             THEN /\ kOutcome' = "throw"
                  /\ UNCHANGED <<kTable, diskTable, diskRows, diskFts>>
             ELSE IF Len(docs) = 0
             THEN /\ kOutcome' = "ok"
                  /\ UNCHANGED <<kTable, diskTable, diskRows, diskFts>>
             ELSE IF ~embedOk
             THEN /\ kOutcome' = "throw"
                  /\ UNCHANGED <<kTable, diskTable, diskRows, diskFts>>
             ELSE Insert(Records(docs), tableOk, indexOk)
    /\ UNCHANGED <<kDb, kReranker, searchVars>>
    /\ UNCHANGED notKnowledgeVars

\* addDocuments(docs)
AddDocuments == \E docs \in Batches : AddDocumentsOf(docs)

\* clear(): drop the table; a failing drop is swallowed
KClear ==
    /\ sPc = "idle"
    /\ \E dropOk \in BOOLEAN :
          IF kDb /\ diskTable /\ dropOk
          THEN /\ diskTable' = FALSE
               /\ diskRows' = <<>>
               /\ diskFts' = FALSE
               /\ kTable' = FALSE
          ELSE UNCHANGED <<diskTable, diskRows, diskFts, kTable>>
    /\ kOutcome' = "ok"
    /\ UNCHANGED <<kDb, kReranker, searchVars>>
    /\ UNCHANGED notKnowledgeVars

\* close()
KClose ==
    /\ sPc = "idle"
    /\ kTable' = FALSE
    /\ kDb' = FALSE
    /\ kOutcome' = "ok"
    /\ UNCHANGED <<kReranker, diskTable, diskRows, diskFts, searchVars>>
    /\ UNCHANGED notKnowledgeVars

\* search(query, numDocuments) is called: without a table or a reranker it
\* returns [] at once, otherwise it awaits the embedder
SearchCall ==
    /\ sPc = "idle"
    /\ \E n \in 1..MaxLimit : sN' = n
    /\ sTrace' = <<>>
    /\ sAnswer' = <<>>
    /\ IF ~kTable \/ ~kReranker
       THEN sPc' = "done" /\ sResult' = SearchList("none", <<>>)
       ELSE sPc' = "running" /\ sResult' = SearchPending
    /\ UNCHANGED <<kDb, kTable, kReranker, diskTable, diskRows, diskFts, kOutcome>>
    /\ UNCHANGED notKnowledgeVars

\* mutant: the catch block rethrows
OnHybridFailureRethrow(trace, embedOk, vectorOk, answer) ==
    [trace |-> trace, answer |-> <<>>, result |-> SearchRaised]

\* what the catch block of search() does with a failure of the try block
OnHybridFailure(trace, embedOk, vectorOk, answer) ==
    LET t2 == Append(trace, <<"embed", embedOk>>)
    IN  IF ~embedOk
        THEN [trace |-> t2, answer |-> <<>>, result |-> SearchRaised]
        ELSE IF ~vectorOk
        THEN [trace |-> Append(t2, <<"vector", FALSE>>), answer |-> <<>>,
              result |-> SearchRaised]
        ELSE [trace |-> Append(t2, <<"vector", TRUE>>), answer |-> answer,
              result |-> SearchList("vector", ToSearchResults(answer))]

\* what the embedder and the table do during one search(query, n): whether
\* the embedding of the try block, the hybrid query, the embedding of
\* vectorSearch() and the nearest-neighbour query succeed, and what the
\* queries answer; the full-text part of the hybrid query needs the
\* full-text index
SearchEnvs(n) ==
    { [embed1Ok |-> TRUE, hybridOk |-> TRUE, hAnswer |-> a,
       embed2Ok |-> TRUE, vectorOk |-> TRUE, vAnswer |-> <<>>] :
        a \in IF diskFts THEN HybridAnswers(HybridLimit(n)) ELSE {} }
    \cup
    { [embed1Ok |-> e1, hybridOk |-> FALSE, hAnswer |-> <<>>,
       embed2Ok |-> TRUE, vectorOk |-> TRUE, vAnswer |-> a] :
        e1 \in BOOLEAN, a \in VectorAnswers(VectorLimit(n)) }
    \cup
    { [embed1Ok |-> e1, hybridOk |-> FALSE, hAnswer |-> <<>>,
       embed2Ok |-> f[1], vectorOk |-> f[2], vAnswer |-> <<>>] :
        e1 \in BOOLEAN, f \in { <<FALSE, FALSE>>, <<TRUE, FALSE>> } }

\* the try block of search() and, when it fails, vectorSearch()
SearchBody(env) ==
    IF ~env.embed1Ok
    THEN OnHybridFailure(<< <<"embed", FALSE>> >>,
                         env.embed2Ok, env.vectorOk, env.vAnswer)
    ELSE IF ~env.hybridOk
    THEN OnHybridFailure(<< <<"embed", TRUE>>, <<"hybrid", FALSE>> >>,
                         env.embed2Ok, env.vectorOk, env.vAnswer)
    ELSE [trace |-> << <<"embed", TRUE>>, <<"hybrid", TRUE>> >>,
          answer |-> env.hAnswer,
          result |-> SearchList("hybrid", ToSearchResults(env.hAnswer))]

\* the awaited calls of search() settle
SearchSettles ==
    /\ sPc = "running"
    /\ \E env \in SearchEnvs(sN) :
          LET out == SearchBody(env)
          IN  /\ sTrace' = out.trace
              /\ sAnswer' = out.answer
              /\ sResult' = out.result
    /\ sPc' = "done"
    /\ UNCHANGED <<sN, kDb, kTable, kReranker, diskTable, diskRows, diskFts, kOutcome>>
    /\ UNCHANGED notKnowledgeVars

\* the caller takes the result
SearchReturn ==
    /\ sPc = "done"
    /\ sPc' = "idle"
    /\ sN' = 0
    /\ sTrace' = <<>>
    /\ sAnswer' = <<>>
    /\ sResult' = SearchPending
    /\ UNCHANGED <<kDb, kTable, kReranker, diskTable, diskRows, diskFts, kOutcome>>
    /\ UNCHANGED notKnowledgeVars

KnowledgeNext ==
    \/ KInitialize
    \/ AddDocument
    \/ AddDocuments
    \/ KClear
    \/ KClose
    \/ SearchCall
    \/ SearchSettles
    \/ SearchReturn

-----------------------------------------------------------------------------
(* searchKnowledge tool, knowledge.ts (AGENT TOOLS) *)

NoRelevantMessage == "No relevant documentation found for this query."
RephraseSuggestion ==
    "Try rephrasing your query with different keywords or broader terms."
SearchFailedError == "Search failed: <error.message>"
SearchFailedUnknown == "Search failed: Unknown error"

\* the object execute() resolves to; a key that is not set is Absent
ToolResult(success, message, suggestion, documentCount, sources, context) ==
    [settled |-> "resolved", success |-> success, message |-> message,
     suggestion |-> suggestion, documentCount |-> documentCount,
     sources |-> sources, context |-> context]

NoToolResult ==
    [settled |-> "none", success |-> FALSE, message |-> Absent,
     suggestion |-> Absent, documentCount |-> 0, sources |-> <<>>,
     context |-> <<>>]

\* [...new Set(sources)]: the first occurrence of each URL, in order
RECURSIVE Dedup(_, _)
Dedup(urls, seen) ==
    IF urls = <<>> THEN <<>>
    ELSE IF Head(urls) \in seen THEN Dedup(Tail(urls), seen)
    ELSE <<Head(urls)>> \o Dedup(Tail(urls), seen \cup {Head(urls)})

\* results.map((r) => r.metadata?.source_url).filter((url) => !!url)
RECURSIVE SourceUrls(_)
SourceUrls(results) ==
    IF results = <<>> THEN <<>>
    ELSE LET url == Head(results).metadata.source_url
         IN  IF url \in {Absent, ""} THEN SourceUrls(Tail(results))
             ELSE <<url>> \o SourceUrls(Tail(results))

\* formatResultsForContext: one block per document
formatResultsForContext(results) ==
    [i \in 1..Len(results) |->
        [header |-> IF results[i].metadata.title \in {Absent, ""}
                    THEN results[i].name ELSE results[i].metadata.title,
         url |-> IF results[i].metadata.source_url \in {Absent, ""}
                 THEN "" ELSE results[i].metadata.source_url,
         content |-> results[i].content]]

\* mutant: execute() without the catch block
OnRetrieveErrorRethrow(isError) ==
    [settled |-> "rejected", success |-> FALSE, message |-> Absent,
     suggestion |-> Absent, documentCount |-> 0, sources |-> <<>>,
     context |-> <<>>]

\* the catch block of execute()
OnRetrieveError(isError) ==
    ToolResult(FALSE, IF isError THEN SearchFailedError ELSE SearchFailedUnknown,
               Absent, 0, <<>>, <<>>)

\* execute(input), given how retriever.retrieve() settled; isError tells
\* whether a raised value is an Error
Execute(retrieved, isError) ==
    IF retrieved.kind = "throw" THEN OnRetrieveError(isError)
    ELSE IF retrieved.kind = "null" \/ Len(retrieved.list) = 0
    THEN ToolResult(FALSE, NoRelevantMessage, RephraseSuggestion, 0, <<>>, <<>>)
    ELSE ToolResult(TRUE, Absent, Absent, Len(retrieved.list),
                    Dedup(SourceUrls(retrieved.list), {}),
                    formatResultsForContext(retrieved.list))

-----------------------------------------------------------------------------
(* EmbeddedBackend, instructions.ts (EMBEDDED BACKEND) *)

MaxParallelCalls == 2   \* most tool calls the model requests in one step

SeedFirstAnswer ==
    "The knowledge base is empty. Please run the setup command to seed documentation first."
NoResponseAnswer == "No response generated."
ApiKeyError ==
    "OpenAI API key is invalid or missing. Set OPENAI_API_KEY environment variable."
UnknownGenerationError == "Unknown error during text generation"

Answer(text) == [kind |-> "answer", value |-> text]
Thrown(message) == [kind |-> "throw", value |-> message]
NoOutcome == [kind |-> "none", value |-> ""]

\* stepCountIs(MAX_STEPS): the loop stops when steps.length === MAX_STEPS
stepCountIs(steps) == steps = MAX_STEPS

\* result.text || "No response generated."
FinalAnswer(text) == Answer(IF text = "" THEN NoResponseAnswer ELSE text)

BackendFresh ==
    /\ bInitialized = FALSE
    /\ bKnowledge = FALSE
    /\ bRetriever = FALSE
    /\ aPc = "idle"
    /\ aEmptyAtCall = FALSE
    /\ aSteps = 0
    /\ aLlmCalls = 0
    /\ aToolCalls = 0
    /\ aPending = 0
    /\ aText = ""
    /\ aRetrieved = Pending
    /\ aToolResult = NoToolResult
    /\ aOutcome = NoOutcome

askVars ==
    <<aPc, aEmptyAtCall, aSteps, aLlmCalls, aToolCalls, aPending, aText,
      aRetrieved, aToolResult, aOutcome>>

\* initialize() of the backend: validate the provider configuration, create the
\* store (a new EmbeddedKnowledge, initialized) and the retriever
BInitializeOk(configOk, connectOk) == bInitialized \/ (configOk /\ connectOk)

\* the fields after initialize() resolved; without effect when initialized
AfterInitialize(openOk) ==
    IF bInitialized
    THEN [db |-> kDb, table |-> kTable, reranker |-> kReranker,
          knowledge |-> bKnowledge, retriever |-> bRetriever]
    ELSE [db |-> TRUE, table |-> diskTable /\ openOk, reranker |-> TRUE,
          knowledge |-> TRUE, retriever |-> TRUE]

\* createEmbeddedBackend(): construct and initialize()
BInitialize ==
    /\ aPc = "idle"
    /\ \E configOk \in BOOLEAN, connectOk \in BOOLEAN, openOk \in BOOLEAN :
          IF BInitializeOk(configOk, connectOk)
          THEN LET f == AfterInitialize(openOk)
               IN  /\ kDb' = f.db /\ kTable' = f.table /\ kReranker' = f.reranker
                   /\ bKnowledge' = f.knowledge /\ bRetriever' = f.retriever
                   /\ bInitialized' = TRUE
                   /\ kOutcome' = "ok"
          ELSE /\ kOutcome' = "throw"
               /\ UNCHANGED <<kDb, kTable, kReranker, bKnowledge, bRetriever, bInitialized>>
    /\ UNCHANGED <<diskTable, diskRows, diskFts, searchVars, askVars>>
    /\ UNCHANGED notBackendVars

\* mutant: ask() without the empty-knowledge-base check
AskHasDocumentsSkipped(knowledge, table, countOk) == TRUE

\* await this.knowledge?.hasDocuments() in ask(): false without a store or a
\* table handle, and when countRows fails
AskHasDocuments(knowledge, table, countOk) ==
    knowledge /\ table /\ countOk /\ Len(diskRows) > 0

\* ask(question) up to its first model call: lazy initialize(), the retriever
\* check, the empty-knowledge-base short circuit
AskCall ==
    /\ aPc = "idle"
    /\ aEmptyAtCall' = (Len(diskRows) = 0)
    /\ aSteps' = 0 /\ aLlmCalls' = 0 /\ aToolCalls' = 0 /\ aPending' = 0
    /\ aText' = "" /\ aRetrieved' = Pending /\ aToolResult' = NoToolResult
    /\ \E configOk \in BOOLEAN, connectOk \in BOOLEAN, openOk \in BOOLEAN,
          countOk \in BOOLEAN :
          LET needInit == ~bInitialized \/ ~bRetriever
              initOk == ~needInit \/ BInitializeOk(configOk, connectOk)
              f == IF needInit THEN AfterInitialize(openOk)
                   ELSE [db |-> kDb, table |-> kTable, reranker |-> kReranker,
                         knowledge |-> bKnowledge, retriever |-> bRetriever]
              hasDocs == AskHasDocuments(f.knowledge, f.table, countOk)
          IN  IF ~initOk
              THEN /\ aPc' = "done"
                   /\ aOutcome' = Thrown("initialize")
                   /\ UNCHANGED <<kDb, kTable, kReranker, bKnowledge, bRetriever, bInitialized>>
              ELSE /\ kDb' = f.db /\ kTable' = f.table /\ kReranker' = f.reranker
                   /\ bKnowledge' = f.knowledge /\ bRetriever' = f.retriever
                   /\ bInitialized' = (bInitialized \/ needInit)
                   /\ IF ~f.retriever
                      THEN aPc' = "done" /\ aOutcome' = Thrown("Backend not properly initialized")
                      ELSE IF ~hasDocs
                      THEN aPc' = "done" /\ aOutcome' = Answer(SeedFirstAnswer)
                      ELSE aPc' = "generating" /\ aOutcome' = NoOutcome
    /\ UNCHANGED <<diskTable, diskRows, diskFts, kOutcome, searchVars>>
    /\ UNCHANGED notBackendVars

\* one step of generateText: the model is called and answers with text, with
\* tool calls (and possibly text), or the call fails
LlmStep ==
    /\ aPc = "generating"
    /\ aLlmCalls' = aLlmCalls + 1
    /\ \E response \in {"text", "tools", "error"}, text \in {"", "an answer"},
          calls \in 1..MaxParallelCalls,
          failure \in {"API key", "other", "not an Error"} :
          CASE response = "text" ->
                 /\ aPc' = "done"
                 /\ aSteps' = aSteps + 1
                 /\ aText' = text
                 /\ aOutcome' = FinalAnswer(text)
                 /\ aPending' = 0
            [] response = "tools" ->
                 /\ aPc' = "tools"
                 /\ aPending' = calls
                 /\ aText' = text
                 /\ UNCHANGED <<aSteps, aOutcome>>
            [] response = "error" ->
                 /\ aPc' = "done"
                 /\ aOutcome' = Thrown(CASE failure = "API key" -> ApiKeyError
                                         [] failure = "other" -> "<error.message>"
                                         [] OTHER -> UnknownGenerationError)
                 /\ UNCHANGED <<aSteps, aText, aPending>>
    /\ UNCHANGED <<aEmptyAtCall, aToolCalls, aRetrieved, aToolResult>>
    /\ UNCHANGED <<bInitialized, bKnowledge, bRetriever, knowledgeVars>>
    /\ UNCHANGED notBackendVars

\* how retriever.retrieve(query, n) settles on the store as it is: search()
\* with n * RETRIEVAL_MULTIPLIER, then the body of retrieve()
RetrieveOn(n, env) ==
    LET out == SearchBody(env)
    IN  IF out.result.kind = "throw" THEN Raised
        ELSE Retrieve(out.result.list, n)

\* one searchKnowledge invocation of the current step; after the last one the
\* step is complete and the stop condition is evaluated
ToolExecute ==
    /\ aPc = "tools"
    /\ aPending > 0
    /\ aToolCalls' = aToolCalls + 1
    /\ aPending' = aPending - 1
    /\ \E n \in {1, DEFAULT_NUM_DOCS} :
          /\ IF ~kTable \/ ~kReranker
             THEN aRetrieved' = Retrieve(<<>>, n)
             ELSE \E env \in SearchEnvs(n * RETRIEVAL_MULTIPLIER) :
                     aRetrieved' = RetrieveOn(n, env)
          /\ \E isError \in IF aRetrieved'.kind = "throw" THEN BOOLEAN ELSE {TRUE} :
                aToolResult' = Execute(aRetrieved', isError)
    /\ IF aPending' > 0
       THEN UNCHANGED <<aPc, aSteps, aOutcome>>
       ELSE /\ aSteps' = aSteps + 1
            /\ IF stepCountIs(aSteps')
               THEN aPc' = "done" /\ aOutcome' = FinalAnswer(aText)
               ELSE aPc' = "generating" /\ UNCHANGED aOutcome
    /\ UNCHANGED <<aEmptyAtCall, aLlmCalls, aText>>
    /\ UNCHANGED <<bInitialized, bKnowledge, bRetriever, knowledgeVars>>
    /\ UNCHANGED notBackendVars

\* the caller takes the answer (or the error)
AskReturn ==
    /\ aPc = "done"
    /\ aPc' = "idle"
    /\ aEmptyAtCall' = FALSE
    /\ aSteps' = 0 /\ aLlmCalls' = 0 /\ aToolCalls' = 0 /\ aPending' = 0
    /\ aText' = "" /\ aRetrieved' = Pending /\ aToolResult' = NoToolResult
    /\ aOutcome' = NoOutcome
    /\ UNCHANGED <<bInitialized, bKnowledge, bRetriever, knowledgeVars>>
    /\ UNCHANGED notBackendVars

\* seeding through getKnowledge(): addDocument on the store of the backend
BSeed ==
    /\ aPc = "idle"
    /\ bKnowledge
    /\ AddDocument

\* close() of the backend: close the store, drop the references
BClose ==
    /\ aPc = "idle"
    /\ IF bKnowledge
       THEN kTable' = FALSE /\ kDb' = FALSE
       ELSE UNCHANGED <<kTable, kDb>>
    /\ bKnowledge' = FALSE
    /\ bRetriever' = FALSE
    /\ bInitialized' = FALSE
    /\ UNCHANGED <<kReranker, diskTable, diskRows, diskFts, kOutcome, searchVars, askVars>>
    /\ UNCHANGED notBackendVars

BackendNext ==
    \/ BInitialize
    \/ AskCall
    \/ LlmStep
    \/ ToolExecute
    \/ AskReturn
    \/ BSeed
    \/ BClose

-----------------------------------------------------------------------------
(* Backend registry, registry.ts *)

MaxLoads == 2       \* callers of loadBackend() that may overlap

BACKEND_TYPES == {"mintlify", "embedded", "agno"}

\* the type values callers pass, a type the registry does not know included
LoadTypes == BACKEND_TYPES \cup {"unknown-type"}

\* the modules ./agno and ./embedded export backendFactory, ./mintlify does not
ExportsFactory(type) == type \in {"embedded", "agno"}

\* module.backendFactory of ./<type>: the factory object, or undefined
BackendFactoryOf(type) ==
    IF ExportsFactory(type) THEN [factory |-> type] ELSE [factory |-> Absent]

NoFactory == [factory |-> Absent]

\* BACKEND_SUGGESTIONS[type] ?? "Try reinstalling the package"
getSuggestion(type) ==
    CASE type = "mintlify" -> "Check your internet connection"
      [] type = "embedded" ->
            "Install from source (git clone + bun install) or use --backend mintlify"
      [] type = "agno" -> "Install Python dependencies: pip install agno"
      [] OTHER -> "Try reinstalling the package"

\* BackendLoadError {type, message, details?, suggestion?}
LoadError(type, message, details, suggestion) ==
    [type |-> type, message |-> message, details |-> details, suggestion |-> suggestion]

NoLoadError == LoadError(Absent, Absent, Absent, Absent)

\* a settled loadBackend(): BackendLoadResult
LoadSuccess(factory) ==
    [settled |-> "resolved", success |-> TRUE, factory |-> factory, error |-> NoLoadError]
LoadFailure(error) ==
    [settled |-> "resolved", success |-> FALSE, factory |-> NoFactory, error |-> error]
LoadRejected ==
    [settled |-> "rejected", success |-> FALSE, factory |-> NoFactory, error |-> NoLoadError]
NoLoadResult ==
    [settled |-> "none", success |-> FALSE, factory |-> NoFactory, error |-> NoLoadError]

\* what a dynamic import can raise: an Error that names a missing module, any
\* other Error, a value that is no Error
ImportErrors == {"Cannot find module", "other Error", "not an Error"}

\* mutant: the catch block rethrows
handleImportErrorRethrow(type, error) == LoadRejected

\* handleImportError(type, error)
handleImportError(type, error) ==
    IF error = "not an Error"
    THEN LoadFailure(LoadError("import_error", "Failed to load backend", "String(error)", Absent))
    ELSE IF error = "Cannot find module"
    THEN LoadFailure(LoadError("dependency_missing",
                               "Backend is not available in this version",
                               "error.message", getSuggestion(type)))
    ELSE LoadFailure(LoadError("import_error", "Failed to load backend",
                               "error.message",
                               "Check that all dependencies are installed"))

\* mutant: the cache is never consulted
CacheHasNever(type) == FALSE

\* cache.has(type)
CacheHas(type) == type \in DOMAIN regCache

\* a call of loadBackend(): not started, awaiting the import, or settled
IdleLoad == [pc |-> "idle", type |-> Absent, imported |-> FALSE, result |-> NoLoadResult]

RegistryFresh ==
    /\ regCache = <<>>
    /\ regLoads = [c \in 1..MaxLoads |-> IdleLoad]

\* loadBackend(type) up to the dynamic import: the cache lookup and the check
\* of the type
LoadCall(c) ==
    /\ regLoads[c].pc = "idle"
    /\ \E type \in LoadTypes :
          regLoads' = [regLoads EXCEPT ![c] =
              IF CacheHas(type)
              THEN [pc |-> "done", type |-> type, imported |-> FALSE,
                    result |-> LoadSuccess(regCache[type])]
              ELSE IF type \notin BACKEND_TYPES
              THEN [pc |-> "done", type |-> type, imported |-> FALSE,
                    result |-> LoadFailure(LoadError("not_found",
                                  "Unknown backend type", Absent,
                                  "Valid backends are: mintlify, embedded, agno"))]
              ELSE [pc |-> "importing", type |-> type, imported |-> TRUE,
                    result |-> NoLoadResult]]
    /\ UNCHANGED regCache
    /\ UNCHANGED notRegistryVars

\* the import resolved: check the factory export, cache the factory
ImportResolves(c) ==
    /\ regLoads[c].pc = "importing"
    /\ LET type == regLoads[c].type
           module == BackendFactoryOf(type)
       IN  IF module.factory = Absent
           THEN /\ regLoads' = [regLoads EXCEPT ![c].pc = "done", ![c].result =
                       LoadFailure(LoadError("import_error",
                           "Backend missing factory export",
                           "Module must export 'backendFactory'", Absent))]
                /\ UNCHANGED regCache
           ELSE /\ regCache' = [t \in (DOMAIN regCache) \cup {type} |->
                                   IF t = type THEN module ELSE regCache[t]]
                /\ regLoads' = [regLoads EXCEPT ![c].pc = "done",
                                                ![c].result = LoadSuccess(module)]
    /\ UNCHANGED notRegistryVars

\* the import rejected: the catch block
ImportRejects(c) ==
    /\ regLoads[c].pc = "importing"
    /\ \E error \in ImportErrors :
          regLoads' = [regLoads EXCEPT ![c].pc = "done",
                          ![c].result = handleImportError(regLoads[c].type, error)]
    /\ UNCHANGED regCache
    /\ UNCHANGED notRegistryVars

\* the caller takes the result
LoadReturn(c) ==
    /\ regLoads[c].pc = "done"
    /\ regLoads' = [regLoads EXCEPT ![c] = IdleLoad]
    /\ UNCHANGED regCache
    /\ UNCHANGED notRegistryVars

RegistryNext ==
    \E c \in 1..MaxLoads :
        \/ LoadCall(c)
        \/ ImportResolves(c)
        \/ ImportRejects(c)
        \/ LoadReturn(c)

-----------------------------------------------------------------------------
(* MintlifyBackend.parseStreamedResponse, mintlify.ts *)

MaxLines == 3       \* lines of a streamed response

\* Text is a sequence of tokens: a word, a blank, a markdown link with a
\* root-relative URL, an inverted markdown link with a root-relative URL, a
\* markdown link with an absolute URL, a double quote.
Word == "word"
Blank == " "
RelativeLink == "[t](/p)"
InvertedLink == "(t)[/p]"
AbsoluteLink == "[t](https://domain/p)"
Quote == "\""

\* String.prototype.trim() on the leading side, on the trailing side
RECURSIVE TrimStart(_)
TrimStart(text) ==
    IF text # <<>> /\ Head(text) = Blank THEN TrimStart(Tail(text)) ELSE text

RECURSIVE TrimEnd(_)
TrimEnd(text) ==
    IF text # <<>> /\ text[Len(text)] = Blank
    THEN TrimEnd(SubSeq(text, 1, Len(text) - 1))
    ELSE text

Trim(text) == TrimEnd(TrimStart(text))

\* fixMarkdownLinks(text, baseUrl): (text)[url] becomes [text](url), then
\* [text](/path) becomes [text](baseUrl/path)
fixMarkdownLinks(text) ==
    LET inverted(t) == IF t = InvertedLink THEN RelativeLink ELSE t
        absolute(t) == IF t = RelativeLink THEN AbsoluteLink ELSE t
    IN  [i \in 1..Len(text) |-> absolute(inverted(text[i]))]

\* line.slice(2).replace(/^"|"$/g, "")
StripQuotes(raw) ==
    LET a == IF raw # <<>> /\ Head(raw) = Quote THEN Tail(raw) ELSE raw
    IN  IF a # <<>> /\ a[Len(a)] = Quote THEN SubSeq(a, 1, Len(a) - 1) ELSE a

NoResponseMessage == << "No response generated. Please try rephrasing your question." >>

\* One line of the response: its two-character prefix and what JSON.parse
\* makes of the rest: a string ("string", its text in payload), a value with a
\* messageId ("object", in messageId), a value without one ("object",
\* messageId absent), null ("null"), any other value ("other"), or a
\* SyntaxError ("invalid", the raw characters in payload).
StreamLine(prefix, json, payload, messageId) ==
    [prefix |-> prefix, json |-> json, payload |-> payload, messageId |-> messageId]

\* the chunks of text a "0:" line carries
ChunkTexts ==
    { <<>>, <<Word>>, <<Blank>>, <<Blank, Word>>, <<Word, Blank>>,
      <<RelativeLink>>, <<InvertedLink>> }

\* payloads that are no JSON: nothing, an unterminated string, a bare word
RawTexts == { <<>>, <<Quote, Word>>, <<Word>> }

TextLines ==
    { StreamLine("0:", "string", t, Absent) : t \in ChunkTexts }
        \cup { StreamLine("0:", "invalid", r, Absent) : r \in RawTexts }
        \cup { StreamLine("0:", "other", <<>>, Absent) }

MetadataLines ==
    { StreamLine("f:", "object", <<>>, id) : id \in {"msg-1", "msg-2", Absent} }
        \cup { StreamLine("f:", "null", <<>>, Absent),
               StreamLine("f:", "invalid", <<Word>>, Absent) }

\* tool calls, tool results, finish metadata, the done signal, an empty line
OtherLines ==
    { StreamLine(p, "string", <<Word>>, "msg-9") : p \in {"9:", "a:", "e:", "d:"} }
        \cup { StreamLine("", "invalid", <<>>, Absent) }

StreamLines == TextLines \cup MetadataLines \cup OtherLines

RECURSIVE StreamsOf(_)
StreamsOf(n) ==
    IF n = 0 THEN { <<>> }
    ELSE LET shorter == StreamsOf(n - 1)
         IN  shorter \cup { Append(s, l) : s \in { x \in shorter : Len(x) = n - 1 },
                                            l \in StreamLines }

Streams == StreamsOf(MaxLines)

\* mutant: the tool results ("a:" lines) are kept as text too
IsTextLineOrToolResult(line) == line.prefix \in {"0:", "a:"}

\* line.startsWith("0:")
IsTextLine(line) == line.prefix = "0:"

\* line.startsWith("f:")
IsMetadataLine(line) == line.prefix = "f:"

\* the "f:" branch: messageId = JSON.parse(...).messageId, a throw is ignored
MessageIdAfter(line, messageId) ==
    IF line.json = "object" THEN line.messageId
    ELSE IF line.json \in {"null", "invalid"} THEN messageId
    ELSE Absent

\* the "0:" branch: the chunks after this line
ChunksAfter(line, textChunks) ==
    IF line.json = "invalid"
    THEN IF StripQuotes(line.payload) # <<>>
         THEN Append(textChunks, StripQuotes(line.payload))
         ELSE textChunks
    ELSE IF line.json = "string" THEN Append(textChunks, line.payload)
    ELSE textChunks

\* textChunks.join("")
RECURSIVE Join(_)
Join(chunks) == IF chunks = <<>> THEN <<>> ELSE Head(chunks) \o Join(Tail(chunks))

Parsed(answer, messageId) == [kind |-> "parsed", answer |-> answer, messageId |-> messageId]
NotParsed == [kind |-> "none", answer |-> <<>>, messageId |-> Absent]

\* the loop over the lines
RECURSIVE ParseLines(_, _, _, _)
ParseLines(lines, i, textChunks, messageId) ==
    IF i > Len(lines) THEN [textChunks |-> textChunks, messageId |-> messageId]
    ELSE IF IsMetadataLine(lines[i])
    THEN ParseLines(lines, i + 1, textChunks, MessageIdAfter(lines[i], messageId))
    ELSE IF IsTextLine(lines[i])
    THEN ParseLines(lines, i + 1, ChunksAfter(lines[i], textChunks), messageId)
    ELSE ParseLines(lines, i + 1, textChunks, messageId)

\* textChunks.join("").trim() || "No response generated...", then
\* fixMarkdownLinks
AnswerOf(textChunks) ==
    fixMarkdownLinks(IF Trim(Join(textChunks)) # <<>>
                     THEN Trim(Join(textChunks))
                     ELSE NoResponseMessage)

\* parseStreamedResponse(rawResponse, baseUrl)
parseStreamedResponse(lines) ==
    LET loop == ParseLines(lines, 1, <<>>, Absent)
    IN  Parsed(AnswerOf(loop.textChunks), loop.messageId)

ParserIdle ==
    /\ pStream = <<>>
    /\ pParsed = NotParsed

\* a call of parseStreamedResponse on a response
ParseCall ==
    /\ pParsed.kind = "none"
    /\ pParsed' = parseStreamedResponse(pStream)
    /\ UNCHANGED pStream
    /\ UNCHANGED notParserVars

ParserNext == ParseCall

-----------------------------------------------------------------------------
(* MintlifyBackend, mintlify.ts *)

MaxTurns == 2       \* question and answer pairs the history may hold

\* the callers of ask(): one conversational session, whose calls follow one
\* another; clearHistory() may come at any time
AskCallers == {"session"}

Questions == {"q1", "q2"}

\* values of the X-Thread-Id response header
ThreadTokens == {"T1", "T2"}

\* a Message: role, content and id (createdAt, parts and revisionId follow
\* from these)
Message(role, content, id) == [role |-> role, content |-> content, id |-> id]

\* newMessage of ask(): id is a generated identifier
UserMessage(question) == Message("user", <<question>>, "generated")

\* the assistant message ask() stores: id is messageId || "msg-" + generated
AssistantMessage(answer, messageId) ==
    Message("assistant", answer,
            IF messageId # Absent THEN messageId ELSE "msg-generated")

\* requestBody: messages, and threadId when this.state.threadId is set
RequestBody(messages, threadId) == [messages |-> messages, threadId |-> threadId]
NoRequest == RequestBody(<<>>, Absent)

\* mutant: the header value is dropped
NewThreadIdStored(header, stored) == stored

\* response.headers.get("X-Thread-Id") || this.state.threadId
NewThreadId(header, stored) == IF header # Absent THEN header ELSE stored

\* mutant: the request carries the new message only
RequestMessagesNewOnly(messages, newMessage) == <<newMessage>>

\* [...this.state.messages, newMessage]
RequestMessages(messages, newMessage) == Append(messages, newMessage)

\* mutant: the new message is pushed onto the stored history at once
StateMessagesAtRequestPushed(messages, newMessage) == Append(messages, newMessage)

\* this.state.messages once the request is built: the request takes a copy,
\* [...this.state.messages, newMessage], and the stored array is untouched
StateMessagesAtRequest(messages, newMessage) == messages

\* mutant: clearHistory keeps the thread token
ClearedThreadIdKept(threadId) == threadId

\* threadId of the state clearHistory() installs
ClearedThreadId(threadId) == Absent

\* how ask() settled: AskResult, or a rejection
AskResult(answer, messageId) ==
    [kind |-> "answer", answer |-> answer, messageId |-> messageId]
AskThrown(message) == [kind |-> "throw", answer |-> <<>>, messageId |-> message]
NoAskResult == [kind |-> "none", answer |-> <<>>, messageId |-> Absent]

\* a call of ask(): not started, awaiting fetch, awaiting response.text(), or
\* settled. header is the X-Thread-Id header of the response; storedAtResponse
\* is this.state.threadId as it was when the response arrived.
IdleAsk ==
    [pc |-> "idle", question |-> Absent, request |-> NoRequest,
     header |-> Absent, storedAtResponse |-> Absent, newThreadId |-> Absent,
     result |-> NoAskResult]

\* the bodies response.text() resolves to: metadata, text and a tool result; a
\* link to rewrite; nothing
ResponseStreams ==
    { << StreamLine("f:", "object", <<>>, "msg-1"),
         StreamLine("a:", "string", <<Word>>, "msg-9"),
         StreamLine("0:", "string", <<Word>>, Absent) >>,
      << StreamLine("0:", "string", <<RelativeLink>>, Absent) >>,
      << >> }

MintlifyFresh ==
    /\ mMessages = <<>>
    /\ mThreadId = Absent
    /\ mAsks = [c \in AskCallers |-> IdleAsk]

InFlight == { c \in AskCallers : mAsks[c].pc \in {"fetching", "reading"} }

\* ask(question) up to the fetch: the request is built from the state
MAskCall(c) ==
    /\ mAsks[c].pc = "idle"
    /\ Len(mMessages) + 2 * Cardinality(InFlight) < 2 * MaxTurns
    /\ \E question \in Questions :
          /\ mAsks' = [mAsks EXCEPT ![c] =
                [pc |-> "fetching", question |-> question,
                 request |-> RequestBody(
                     RequestMessages(mMessages, UserMessage(question)), mThreadId),
                 header |-> Absent, storedAtResponse |-> Absent,
                 newThreadId |-> Absent, result |-> NoAskResult]]
          /\ mMessages' = StateMessagesAtRequest(mMessages, UserMessage(question))
    /\ UNCHANGED mThreadId
    /\ UNCHANGED notMintlifyVars

\* fetch rejects (network error)
MFetchRejects(c) ==
    /\ mAsks[c].pc = "fetching"
    /\ mAsks' = [mAsks EXCEPT ![c].pc = "done",
                              ![c].result = AskThrown("fetch failed")]
    /\ UNCHANGED <<mMessages, mThreadId>>
    /\ UNCHANGED notMintlifyVars

\* fetch resolves: a response that is not ok raises; otherwise newThreadId is
\* taken and response.text() is awaited
MFetchResolves(c) ==
    /\ mAsks[c].pc = "fetching"
    /\ \E ok \in BOOLEAN, header \in ThreadTokens \cup {Absent} :
          mAsks' = [mAsks EXCEPT ![c] =
              IF ~ok
              THEN [@ EXCEPT !.pc = "done",
                             !.result = AskThrown("Mintlify API error")]
              ELSE [@ EXCEPT !.pc = "reading",
                             !.header = header,
                             !.storedAtResponse = mThreadId,
                             !.newThreadId = NewThreadId(header, mThreadId)]]
    /\ UNCHANGED <<mMessages, mThreadId>>
    /\ UNCHANGED notMintlifyVars

\* response.text() rejects
MTextRejects(c) ==
    /\ mAsks[c].pc = "reading"
    /\ mAsks' = [mAsks EXCEPT ![c].pc = "done",
                              ![c].result = AskThrown("body failed")]
    /\ UNCHANGED <<mMessages, mThreadId>>
    /\ UNCHANGED notMintlifyVars

\* response.text() resolves: the response is parsed and the conversation
\* state updated
MTextResolves(c) ==
    /\ mAsks[c].pc = "reading"
    /\ \E text \in ResponseStreams :
          LET parsed == parseStreamedResponse(text)
          IN  /\ mThreadId' = mAsks[c].newThreadId
              /\ mMessages' = mMessages \o
                    << UserMessage(mAsks[c].question),
                       AssistantMessage(parsed.answer, parsed.messageId) >>
              /\ mAsks' = [mAsks EXCEPT ![c].pc = "done",
                              ![c].result = AskResult(parsed.answer, parsed.messageId)]
    /\ UNCHANGED notMintlifyVars

\* the caller takes the result
MAskReturn(c) ==
    /\ mAsks[c].pc = "done"
    /\ mAsks' = [mAsks EXCEPT ![c] = IdleAsk]
    /\ UNCHANGED <<mMessages, mThreadId>>
    /\ UNCHANGED notMintlifyVars

\* clearHistory()
MClearHistory ==
    /\ mMessages' = <<>>
    /\ mThreadId' = ClearedThreadId(mThreadId)
    /\ UNCHANGED mAsks
    /\ UNCHANGED notMintlifyVars

MintlifyNext ==
    \/ \E c \in AskCallers :
          \/ MAskCall(c)
          \/ MFetchRejects(c)
          \/ MFetchResolves(c)
          \/ MTextRejects(c)
          \/ MTextResolves(c)
          \/ MAskReturn(c)
    \/ MClearHistory

-----------------------------------------------------------------------------
(* isAvailable() of the three backends: mintlify.ts, embedded/instructions.ts, *)
(* agno.ts                                                                     *)

\* a call of isAvailable(): pc is "idle", the await it is suspended at
\* ("options", "initialize", "hasDocuments", "health", "agents"), or "done";
\* answers tells whether the downstream service answers the probes of this
\* call at all; result is what the call settled to
Probe(pc, answers, result) == [pc |-> pc, answers |-> answers, result |-> result]
IdleProbe == Probe("idle", TRUE, "none")
Settled(probe, result) == Probe("done", probe.answers, result)

ProbesFresh == vProbes = [b \in BACKEND_TYPES |-> IdleProbe]

\* the await an isAvailable() call suspends at first
FirstAwait(b) ==
    CASE b = "mintlify" -> "options"
      [] b = "embedded" -> "initialize"
      [] b = "agno" -> "health"

\* isAvailable() is called
ProbeCall(b) ==
    /\ vProbes[b].pc = "idle"
    /\ \E answers \in BOOLEAN :
          vProbes' = [vProbes EXCEPT ![b] = Probe(FirstAwait(b), answers, "none")]
    /\ UNCHANGED notProbeVars

\* MintlifyBackend.isAvailable: the OPTIONS request is answered, or fails
MintlifyOptionsSettles ==
    /\ vProbes["mintlify"].pc = "options"
    /\ vProbes["mintlify"].answers
    /\ \E outcome \in {"ok", "405", "not ok", "rejected"} :
          vProbes' = [vProbes EXCEPT !["mintlify"] =
              Settled(@, IF outcome \in {"ok", "405"} THEN "true" ELSE "false")]
    /\ UNCHANGED notProbeVars

\* AgnoBackend.isAvailable: the GET /health is answered, fails, or is aborted
\* by its timeout; on a rejection GET /agents is tried
AgnoHealthSettles ==
    /\ vProbes["agno"].pc = "health"
    /\ \E outcome \in IF vProbes["agno"].answers
                      THEN {"ok", "not ok", "rejected", "timeout"}
                      ELSE {"timeout"} :
          vProbes' = [vProbes EXCEPT !["agno"] =
              IF outcome = "ok" THEN Settled(@, "true")
              ELSE IF outcome = "not ok" THEN Settled(@, "false")
              ELSE Probe("agents", @.answers, "none")]
    /\ UNCHANGED notProbeVars

\* AgnoBackend.isAvailable: the GET /agents is answered, fails, or is aborted
\* by its timeout
AgnoAgentsSettles ==
    /\ vProbes["agno"].pc = "agents"
    /\ \E outcome \in IF vProbes["agno"].answers
                      THEN {"ok", "not ok", "rejected", "timeout"}
                      ELSE {"timeout"} :
          vProbes' = [vProbes EXCEPT !["agno"] =
              Settled(@, IF outcome = "ok" THEN "true" ELSE "false")]
    /\ UNCHANGED notProbeVars

\* EmbeddedBackend.isAvailable: initialize() settles (it is skipped when the
\* backend is initialized); a rejection is caught
EmbeddedInitializeSettles ==
    /\ vProbes["embedded"].pc = "initialize"
    /\ \E ok \in BOOLEAN :
          vProbes' = [vProbes EXCEPT !["embedded"] =
              IF ok THEN Probe("hasDocuments", @.answers, "none")
              ELSE Settled(@, "false")]
    /\ UNCHANGED notProbeVars

\* EmbeddedBackend.isAvailable: knowledge.hasDocuments() settles
EmbeddedHasDocumentsSettles ==
    /\ vProbes["embedded"].pc = "hasDocuments"
    /\ \E has \in BOOLEAN :
          vProbes' = [vProbes EXCEPT !["embedded"] =
              Settled(@, IF has THEN "true" ELSE "false")]
    /\ UNCHANGED notProbeVars

\* the caller takes the result
ProbeReturn(b) ==
    /\ vProbes[b].pc = "done"
    /\ vProbes' = [vProbes EXCEPT ![b] = IdleProbe]
    /\ UNCHANGED notProbeVars

ProbeSettles ==
    \/ MintlifyOptionsSettles
    \/ AgnoHealthSettles
    \/ AgnoAgentsSettles
    \/ EmbeddedInitializeSettles
    \/ EmbeddedHasDocumentsSettles

ProbesNext ==
    \/ \E b \in BACKEND_TYPES : ProbeCall(b) \/ ProbeReturn(b)
    \/ ProbeSettles

-----------------------------------------------------------------------------
(* EmbeddedBackend and the stores it opens: initialize, ask, isAvailable,   *)
(* close (embedded/instructions.ts)                                         *)

MaxStores == 3      \* stores created in one run

\* the callers of ask() and isAvailable(); their calls may overlap
LifecycleCallers == {"c1", "c2"}

LifecycleOps == {"ask", "isAvailable"}

\* a call: pc is "idle", "creating" (awaiting createKnowledge in
\* initialize()), "hasDocuments" (awaiting knowledge.hasDocuments()),
\* "generating" (awaiting generateText, whose tool uses the retriever), or
\* "done"; uses is the store the pending await works on, 0 for none
LifecycleCall(pc, op, uses, result) ==
    [pc |-> pc, op |-> op, uses |-> uses, result |-> result]
IdleCall == LifecycleCall("idle", "none", 0, "none")

\* how a call settles when initialization fails: ask() rejects,
\* isAvailable() catches and returns false
InitFailure(op) == IF op = "ask" THEN "throw" ELSE "false"

LifecycleFresh ==
    /\ lInitialized = FALSE
    /\ lKnowledge = 0
    /\ lRetriever = 0
    /\ lStores = <<>>
    /\ lCalls = [c \in LifecycleCallers |-> IdleCall]

\* the calls suspended in createKnowledge
Creating == { c \in LifecycleCallers : lCalls[c].pc = "creating" }

\* the guard before "await this.initialize()": !this.initialized ||
\* !this.retriever in ask(), !this.initialized in isAvailable()
NeedsInitialize(op, initialized, retriever) ==
    IF op = "ask" THEN ~initialized \/ retriever = 0 ELSE ~initialized

\* mutant: close() leaves initialized set
ClosedInitializedKept(initialized) == initialized

\* this.initialized after close()
ClosedInitialized(initialized) == FALSE

\* the call after initialization: ask() checks the retriever, then both
\* operations await hasDocuments() of this.knowledge
AfterInit(c, op, knowledge, retriever) ==
    IF op = "ask" /\ retriever = 0
    THEN LifecycleCall("done", op, 0, "throw")
    ELSE IF knowledge = 0
    THEN LifecycleCall("done", op, 0, IF op = "ask" THEN "answer" ELSE "false")
    ELSE LifecycleCall("hasDocuments", op, knowledge, "none")

\* ask() or isAvailable() is called: up to the first await
LCall(c) ==
    /\ lCalls[c].pc = "idle"
    /\ \E op \in LifecycleOps, configOk \in BOOLEAN :
          lCalls' = [lCalls EXCEPT ![c] =
              IF NeedsInitialize(op, lInitialized, lRetriever) /\ ~lInitialized
              THEN \* initialize(): validateProviderConfig, then createKnowledge
                   IF configOk /\ Len(lStores) + Cardinality(Creating) < MaxStores
                   THEN LifecycleCall("creating", op, 0, "none")
                   ELSE LifecycleCall("done", op, 0, InitFailure(op))
              ELSE \* initialize() is skipped or returns at once
                   AfterInit(c, op, lKnowledge, lRetriever)]
    /\ UNCHANGED <<lInitialized, lKnowledge, lRetriever, lStores>>
    /\ UNCHANGED notLifecycleVars

\* createKnowledge resolves: initialize() stores the new store and a
\* retriever on it and sets initialized; the call goes on
LCreateResolves(c) ==
    /\ lCalls[c].pc = "creating"
    /\ LET id == Len(lStores) + 1
       IN  /\ lStores' = Append(lStores, "open")
           /\ lKnowledge' = id
           /\ lRetriever' = id
           /\ lInitialized' = TRUE
           /\ lCalls' = [lCalls EXCEPT ![c] = AfterInit(c, lCalls[c].op, id, id)]
    /\ UNCHANGED notLifecycleVars

\* createKnowledge rejects (the connection fails): nothing is stored
LCreateRejects(c) ==
    /\ lCalls[c].pc = "creating"
    /\ lCalls' = [lCalls EXCEPT ![c] =
          LifecycleCall("done", lCalls[c].op, 0, InitFailure(lCalls[c].op))]
    /\ UNCHANGED <<lInitialized, lKnowledge, lRetriever, lStores>>
    /\ UNCHANGED notLifecycleVars

\* hasDocuments() settles: isAvailable() returns it; ask() answers at once on
\* an empty store, and otherwise builds the tool on this.retriever and awaits
\* generateText
LHasDocumentsSettles(c) ==
    /\ lCalls[c].pc = "hasDocuments"
    /\ \E has \in BOOLEAN :
          lCalls' = [lCalls EXCEPT ![c] =
              IF lCalls[c].op = "isAvailable"
              THEN LifecycleCall("done", "isAvailable", lCalls[c].uses,
                                 IF has THEN "true" ELSE "false")
              ELSE IF ~has \/ lRetriever = 0
              THEN LifecycleCall("done", "ask", lCalls[c].uses, "answer")
              ELSE LifecycleCall("generating", "ask", lRetriever, "none")]
    /\ UNCHANGED <<lInitialized, lKnowledge, lRetriever, lStores>>
    /\ UNCHANGED notLifecycleVars

\* generateText settles
LGenerateSettles(c) ==
    /\ lCalls[c].pc = "generating"
    /\ \E result \in {"answer", "throw"} :
          lCalls' = [lCalls EXCEPT ![c] =
              LifecycleCall("done", "ask", lCalls[c].uses, result)]
    /\ UNCHANGED <<lInitialized, lKnowledge, lRetriever, lStores>>
    /\ UNCHANGED notLifecycleVars

\* the caller takes the result
LReturn(c) ==
    /\ lCalls[c].pc = "done"
    /\ lCalls' = [lCalls EXCEPT ![c] = IdleCall]
    /\ UNCHANGED <<lInitialized, lKnowledge, lRetriever, lStores>>
    /\ UNCHANGED notLifecycleVars

\* close(), called while no ask() or isAvailable() is in flight: the store of
\* this.knowledge is closed, the references are dropped
LClose ==
    /\ \A c \in LifecycleCallers : lCalls[c].pc \in {"idle", "done"}
    /\ lStores' = IF lKnowledge # 0
                  THEN [lStores EXCEPT ![lKnowledge] = "closed"]
                  ELSE lStores
    /\ lKnowledge' = 0
    /\ lRetriever' = 0
    /\ lInitialized' = ClosedInitialized(lInitialized)
    /\ UNCHANGED lCalls
    /\ UNCHANGED notLifecycleVars

LifecycleNext ==
    \/ \E c \in LifecycleCallers :
          \/ LCall(c)
          \/ LCreateResolves(c)
          \/ LCreateRejects(c)
          \/ LHasDocumentsSettles(c)
          \/ LGenerateSettles(c)
          \/ LReturn(c)
    \/ LClose

-----------------------------------------------------------------------------
(* Overlapping addDocument() calls on one EmbeddedKnowledge: the setup      *)
(* command runs each batch through Promise.all (knowledge.ts, part_017)     *)

SeedCallers == {"p1", "p2"}

\* a call: pc is "idle", "embedding" (awaiting embedder.embed), "creating"
\* (awaiting db.createTable), "indexing" (awaiting table.createIndex),
\* "adding" (awaiting table.add) or "done"; outcome is "ok", or how it threw:
\* "uninitialized", "exists" (createTable found the table) or "io" (an
\* awaited operation failed for another reason)
AddCallRecord(pc, doc, outcome) == [pc |-> pc, doc |-> doc, outcome |-> outcome]
IdleAdd == AddCallRecord("idle", Doc("", "", EmptyMeta), "none")

SeedingFresh == addCalls = [c \in SeedCallers |-> IdleAdd]

AddsInFlight == { c \in SeedCallers : addCalls[c].pc \notin {"idle", "done"} }

\* initialize(), before the batches start
SeedInitialize ==
    /\ AddsInFlight = {}
    /\ KInitialize

\* addDocument(doc) is called: the db check, then the embedding is awaited
AddCall(c) ==
    /\ addCalls[c].pc = "idle"
    /\ Len(diskRows) + Cardinality(AddsInFlight) < MaxRows
    /\ \E doc \in DocSet :
          addCalls' = [addCalls EXCEPT ![c] =
              IF ~kDb THEN AddCallRecord("done", doc, "uninitialized")
              ELSE AddCallRecord("embedding", doc, "none")]
    /\ UNCHANGED knowledgeVars
    /\ UNCHANGED notSeedingVars

\* the embedding settles; the call reads this.table and starts createTable
\* or table.add
AddEmbedSettles(c) ==
    /\ addCalls[c].pc = "embedding"
    /\ \E embedOk \in BOOLEAN :
          addCalls' = [addCalls EXCEPT ![c] =
              IF ~embedOk THEN AddCallRecord("done", addCalls[c].doc, "io")
              ELSE IF ~kTable THEN AddCallRecord("creating", addCalls[c].doc, "none")
              ELSE AddCallRecord("adding", addCalls[c].doc, "none")]
    /\ UNCHANGED knowledgeVars
    /\ UNCHANGED notSeedingVars

\* createTable settles: it rejects when the table exists; otherwise the
\* table is written with the record, this.table is assigned and createIndex
\* is awaited
CreateTableSettles(c) ==
    /\ addCalls[c].pc = "creating"
    /\ \E tableOk \in BOOLEAN :
          IF diskTable \/ ~tableOk
          THEN /\ addCalls' = [addCalls EXCEPT ![c] =
                      AddCallRecord("done", addCalls[c].doc,
                                    IF diskTable THEN "exists" ELSE "io")]
               /\ UNCHANGED <<kTable, diskTable, diskRows>>
          ELSE /\ addCalls' = [addCalls EXCEPT ![c] =
                      AddCallRecord("indexing", addCalls[c].doc, "none")]
               /\ kTable' = TRUE
               /\ diskTable' = TRUE
               /\ diskRows' = <<LanceRecord(addCalls[c].doc)>>
    /\ UNCHANGED <<kDb, kReranker, diskFts, kOutcome, searchVars>>
    /\ UNCHANGED notSeedingVars

\* createIndex settles
CreateIndexSettles(c) ==
    /\ addCalls[c].pc = "indexing"
    /\ \E indexOk \in BOOLEAN :
          /\ addCalls' = [addCalls EXCEPT ![c] =
                AddCallRecord("done", addCalls[c].doc, IF indexOk THEN "ok" ELSE "io")]
          /\ diskFts' = (diskFts \/ indexOk)
    /\ UNCHANGED <<kDb, kTable, kReranker, diskTable, diskRows, kOutcome, searchVars>>
    /\ UNCHANGED notSeedingVars

\* table.add settles
TableAddSettles(c) ==
    /\ addCalls[c].pc = "adding"
    /\ \E addOk \in BOOLEAN :
          /\ addCalls' = [addCalls EXCEPT ![c] =
                AddCallRecord("done", addCalls[c].doc, IF addOk THEN "ok" ELSE "io")]
          /\ diskRows' = IF addOk
                         THEN Append(diskRows, LanceRecord(addCalls[c].doc))
                         ELSE diskRows
    /\ UNCHANGED <<kDb, kTable, kReranker, diskTable, diskFts, kOutcome, searchVars>>
    /\ UNCHANGED notSeedingVars

\* the caller takes the outcome
AddReturn(c) ==
    /\ addCalls[c].pc = "done"
    /\ addCalls' = [addCalls EXCEPT ![c] = IdleAdd]
    /\ UNCHANGED knowledgeVars
    /\ UNCHANGED notSeedingVars

SeedingNext ==
    \/ SeedInitialize
    \/ \E c \in SeedCallers :
          \/ AddCall(c)
          \/ AddEmbedSettles(c)
          \/ CreateTableSettles(c)
          \/ CreateIndexSettles(c)
          \/ TableAddSettles(c)
          \/ AddReturn(c)

-----------------------------------------------------------------------------
(* Specifications *)

Init ==
    /\ RetrieverIdle
    /\ KnowledgeFresh
    /\ BackendFresh
    /\ RegistryFresh
    /\ MintlifyFresh
    /\ ParserIdle
    /\ ProbesFresh
    /\ LifecycleFresh
    /\ SeedingFresh

RetrieverInit == Init

SpecRetriever == RetrieverInit /\ [][RetrieverNext]_vars

SpecKnowledge == Init /\ [][KnowledgeNext]_vars

SpecBackend == Init /\ [][BackendNext]_vars

SpecRegistry == Init /\ [][RegistryNext]_vars

SpecMintlify == Init /\ [][MintlifyNext]_vars

\* the parser on every response of up to MaxLines lines
ParserInit ==
    /\ RetrieverIdle
    /\ KnowledgeFresh
    /\ BackendFresh
    /\ RegistryFresh
    /\ MintlifyFresh
    /\ pStream \in Streams
    /\ pParsed = NotParsed
    /\ ProbesFresh
    /\ LifecycleFresh
    /\ SeedingFresh

SpecParser == ParserInit /\ [][ParserNext]_vars

SpecLifecycle == Init /\ [][LifecycleNext]_vars

SpecSeeding == Init /\ [][SeedingNext]_vars

\* the probes, where every await that can settle does settle: a timer that
\* was set fires, a service that answers is heard, a local operation ends
SpecProbes ==
    /\ Init
    /\ [][ProbesNext]_vars
    /\ WF_vars(MintlifyOptionsSettles)
    /\ WF_vars(AgnoHealthSettles)
    /\ WF_vars(AgnoAgentsSettles)
    /\ WF_vars(EmbeddedInitializeSettles)
    /\ WF_vars(EmbeddedHasDocumentsSettles)

-----------------------------------------------------------------------------
(* Claims about KnowledgeRetriever *)

\* retrieve() has settled with a value (search did not reject)
RetrieveResolved == rPc = "done" /\ rResult # Raised

\* every raw hit carries a score and every score is below MIN_SCORE
AllBelowMinScore(hits) ==
    /\ Len(hits) > 0
    /\ \A i \in 1..Len(hits) : hits[i].score # NoScore /\ hits[i].score < MIN_SCORE

\* the source key of a hit or of a returned result: its source_url when
\* present and non-empty, otherwise its name
ResultKey(c) ==
    IF c.metadata.source_url # Absent /\ c.metadata.source_url # ""
    THEN c.metadata.source_url
    ELSE c.name

\* the cleaned form of a raw hit, as the claims describe it
CleanedOf(h) ==
    Cleaned(h.name, h.content, h.metadata.source_url, h.metadata.title)

\* C1: retrieve() returns null if and only if search returned zero raw hits;
\* with at least one raw hit the result is a (non-null) list, also when the
\* score filter removes every hit.
C1_NullIffNoRawHits ==
    RetrieveResolved =>
        /\ (rResult = Null <=> Len(rHits) = 0)
        /\ (Len(rHits) > 0 => rResult.kind = "list")

C1_Witness ==
    /\ RetrieveResolved
    /\ AllBelowMinScore(rHits)
    /\ rResult.kind = "list"

\* C2: the returned list holds at most MAX_CHUNKS_PER_URL results per source
\* key, on the normal path and on the all-filtered fallback path.
C2_AtMostCapPerKey ==
    (RetrieveResolved /\ rResult.kind = "list") =>
        \A i \in 1..Len(rResult.list) :
            Cardinality({ j \in 1..Len(rResult.list) :
                ResultKey(rResult.list[j]) = ResultKey(rResult.list[i]) })
                <= MAX_CHUNKS_PER_URL

\* the fallback path, with more raw hits of one key than the cap admits
C2_Witness ==
    /\ RetrieveResolved
    /\ AllBelowMinScore(rHits)
    /\ \E i \in 1..Len(rHits) :
          /\ i <= rN
          /\ Cardinality({ j \in 1..Min(rN, Len(rHits)) :
                ResultKey(rHits[j]) = ResultKey(rHits[i]) }) > MAX_CHUNKS_PER_URL
          /\ Cardinality({ j \in 1..Len(rResult.list) :
                ResultKey(rResult.list[j]) = ResultKey(rHits[i]) })
                = MAX_CHUNKS_PER_URL

\* C3: if every raw hit scores below MIN_SCORE and n >= 1, the result is a
\* non-null, non-empty list of at most n results, each one of the first n
\* raw hits.
C3_FallbackOverEmptiness ==
    (RetrieveResolved /\ AllBelowMinScore(rHits) /\ rN >= 1) =>
        /\ rResult.kind = "list"
        /\ Len(rResult.list) >= 1
        /\ Len(rResult.list) <= rN
        /\ \A i \in 1..Len(rResult.list) :
              \E j \in 1..Min(rN, Len(rHits)) :
                  rResult.list[i] = CleanedOf(rHits[j])

\* a fallback in which the raw hits beyond the first n would have been
\* accepted by the per-key cap
C3_Witness ==
    /\ RetrieveResolved
    /\ AllBelowMinScore(rHits)
    /\ rN >= 1
    /\ Len(rHits) > rN
    /\ Len(rResult.list) < rN
    /\ \A j \in 1..Len(rResult.list) :
          ResultKey(rResult.list[j]) # ResultKey(rHits[Len(rHits)])

\* the hits that go to dedup-and-cap: the hits that pass the score filter,
\* or the first n raw hits when none passes
Candidates(hits, n) ==
    LET passing == SelectSeq(hits, LAMBDA h : h.score = NoScore \/ h.score >= MIN_SCORE)
    IN  IF passing = <<>> THEN SubSeq(hits, 1, Min(n, Len(hits)))
        ELSE passing

\* S is the set of accepted ranks of a greedy walk over cands
IsGreedyWalk(S, cands, n) ==
    \A i \in 1..Len(cands) :
        i \in S <=>
            /\ Cardinality({ j \in S : j < i }) < n
            /\ Cardinality({ j \in S : j < i /\
                    ResultKey(cands[j]) = ResultKey(cands[i]) })
                  < MAX_CHUNKS_PER_URL

\* the elements of cands at the ranks in S, in rank order, cleaned
RECURSIVE Pick(_, _, _)
Pick(cands, S, i) ==
    IF i > Len(cands) THEN <<>>
    ELSE IF i \in S THEN <<CleanedOf(cands[i])>> \o Pick(cands, S, i + 1)
    ELSE Pick(cands, S, i + 1)

\* C4: the output is exactly the greedy walk over the candidates in rank
\* order (accept iff fewer than n accepted so far and fewer than
\* MAX_CHUNKS_PER_URL accepted with the same key), never longer than n; for
\* A(0.9), A(0.8), A(0.7), B(0.6) and n = 10 it is [A(0.9), A(0.8), B(0.6)].
C4_GreedyWalk ==
    (RetrieveResolved /\ rResult.kind = "list") =>
        LET cands == Candidates(rHits, rN)
        IN  /\ \E S \in SUBSET (1..Len(cands)) :
                  /\ IsGreedyWalk(S, cands, rN)
                  /\ rResult.list = Pick(cands, S, 1)
            /\ Len(rResult.list) <= rN
            /\ (rHits = ScenarioHits /\ rN = 10) =>
                  rResult.list = << CleanedOf(ScenarioHits[1]),
                                    CleanedOf(ScenarioHits[2]),
                                    CleanedOf(ScenarioHits[4]) >>

C4_Witness ==
    /\ RetrieveResolved
    /\ rHits = ScenarioHits
    /\ rN = 10
    /\ Len(rResult.list) = 3

-----------------------------------------------------------------------------
(* Claims about EmbeddedKnowledge.search, the searchKnowledge tool and       *)
(* EmbeddedBackend.ask                                                     *)

\* C5: one ask() never issues more than MAX_STEPS searchKnowledge
\* invocations, whatever the model requests at each step.
C5_ToolCallsWithinMaxSteps == aToolCalls <= MAX_STEPS

\* C6: if the store holds no documents when ask() is called, ask() settles
\* without a language-model call and without a tool invocation, and the
\* answer it returns is the fixed "knowledge base is empty" answer (ask()
\* raises instead only when its lazy initialize() raised).
C6_EmptyStoreShortCircuit ==
    (aPc # "idle" /\ aEmptyAtCall) =>
        /\ aPc = "done"
        /\ aLlmCalls = 0
        /\ aToolCalls = 0
        /\ aOutcome.kind = "answer" => aOutcome = Answer(SeedFirstAnswer)
        /\ aOutcome.kind = "throw" => aOutcome = Thrown("initialize")

\* an initialized backend on an empty store answered
C6_Witness ==
    /\ aPc = "done"
    /\ aEmptyAtCall
    /\ bInitialized
    /\ aOutcome = Answer(SeedFirstAnswer)

\* the calls of a finished search(): only the hybrid query failed
OnlyHybridFailed ==
    /\ sPc = "done"
    /\ \E i \in 1..Len(sTrace) : sTrace[i] = <<"hybrid", FALSE>>
    /\ \A i \in 1..Len(sTrace) : sTrace[i][2] = FALSE => sTrace[i][1] = "hybrid"

\* C7: when the hybrid query raises while the embedder and the vector-only
\* query work, search() does not raise and returns the rows of the
\* nearest-neighbour query, in its order, with the distance as score.
C7_HybridFailureAbsorbed ==
    OnlyHybridFailed =>
        /\ sResult.kind = "list"
        /\ sResult.mode = "vector"
        /\ sTrace[Len(sTrace)] = <<"vector", TRUE>>
        /\ Len(sResult.list) = Len(sAnswer)
        /\ \A i \in 1..Len(sAnswer) :
              /\ sResult.list[i].name = diskRows[sAnswer[i].row].name
              /\ sResult.list[i].content = diskRows[sAnswer[i].row].content
              /\ sResult.list[i].score = sAnswer[i].score

C7_Witness ==
    /\ OnlyHybridFailed
    /\ Len(sResult.list) >= 1

\* C8: execute() of the searchKnowledge tool never rejects; when
\* retriever.retrieve raises, it resolves to {success: false, message}.
C8_ExecuteAlwaysResolves ==
    aToolCalls > 0 =>
        /\ aToolResult.settled = "resolved"
        /\ aToolResult.success \in BOOLEAN
        /\ aRetrieved.kind = "throw" =>
              /\ aToolResult.success = FALSE
              /\ aToolResult.message \in {SearchFailedError, SearchFailedUnknown}

C8_Witness ==
    /\ aToolCalls > 0
    /\ aRetrieved.kind = "throw"
    /\ aToolResult.settled = "resolved"
    /\ aToolResult.success = FALSE

-----------------------------------------------------------------------------
(* Claims about the backend registry *)

LoadErrorTypes == {"not_found", "dependency_missing", "import_error"}

\* C9: loadBackend(type) never rejects: every settled call holds a structured
\* result; an unknown type yields not_found without an import; whatever the
\* import raises becomes a structured error.
C9_LoadNeverThrows ==
    \A c \in 1..MaxLoads :
        regLoads[c].pc = "done" =>
            /\ regLoads[c].result.settled = "resolved"
            /\ regLoads[c].type \notin BACKEND_TYPES =>
                  /\ regLoads[c].result.success = FALSE
                  /\ regLoads[c].result.error.type = "not_found"
                  /\ regLoads[c].imported = FALSE
            /\ regLoads[c].result.success = FALSE =>
                  regLoads[c].result.error.type \in LoadErrorTypes

\* a call whose import raised has settled
C9_Witness ==
    \E c \in 1..MaxLoads :
        /\ regLoads[c].pc = "done"
        /\ regLoads[c].imported
        /\ regLoads[c].result.settled = "resolved"
        /\ regLoads[c].result.error.type = "dependency_missing"

\* the cache holds factories of known backend types only
CacheHoldsFactories ==
    \A t \in DOMAIN regCache :
        t \in BACKEND_TYPES /\ regCache[t] = [factory |-> t]

\* call c starts in this step
LoadStarts(c) == regLoads[c].pc = "idle" /\ regLoads'[c].pc # "idle"

\* call c settles in this step
LoadSettles(c) == regLoads[c].pc # "done" /\ regLoads'[c].pc = "done"

CacheStep ==
    /\ \A t \in DOMAIN regCache :
          t \in DOMAIN regCache' /\ regCache'[t] = regCache[t]
    /\ \A c \in 1..MaxLoads :
          /\ (LoadStarts(c) /\ regLoads'[c].type \in DOMAIN regCache) =>
                /\ regLoads'[c].pc = "done"
                /\ regLoads'[c].imported = FALSE
                /\ regLoads'[c].result = LoadSuccess(regCache[regLoads'[c].type])
          /\ (LoadStarts(c) /\ regLoads'[c].type \in BACKEND_TYPES \ DOMAIN regCache) =>
                /\ regLoads'[c].pc = "importing"
                /\ regLoads'[c].imported = TRUE
          /\ (LoadSettles(c) /\ regLoads'[c].result.success = FALSE) =>
                regCache' = regCache
          /\ (LoadSettles(c) /\ regLoads'[c].result.success = TRUE) =>
                /\ regLoads'[c].type \in DOMAIN regCache'
                /\ regCache'[regLoads'[c].type] = regLoads'[c].result.factory

\* C10: the registry caches successes only: after a success of
\* loadBackend(t) every later loadBackend(t) returns the cached factory
\* without an import; a failed call leaves the cache unchanged, so a later call
\* imports again; the cache holds only factories of known backend types.
C10_CachesSuccessesOnly == []CacheHoldsFactories /\ [][CacheStep]_vars

\* a call served from the cache
C10_Witness ==
    \E c \in 1..MaxLoads :
        /\ regLoads[c].pc = "done"
        /\ regLoads[c].imported = FALSE
        /\ regLoads[c].result.success = TRUE
        /\ regLoads[c].result.factory = regCache[regLoads[c].type]

\* C11: every failed loadBackend result carries an error whose type is one of
\* not_found, dependency_missing, import_error and whose suggestion is set.
C11_FailureHasSuggestion ==
    \A c \in 1..MaxLoads :
        (regLoads[c].pc = "done" /\ regLoads[c].result.success = FALSE) =>
            /\ regLoads[c].result.error.type \in LoadErrorTypes
            /\ regLoads[c].result.error.suggestion # Absent

-----------------------------------------------------------------------------
(* Claims about MintlifyBackend *)

\* user and assistant messages alternate, starting with a user message
Alternates(messages) ==
    /\ Len(messages) % 2 = 0
    /\ \A i \in 1..Len(messages) :
          messages[i].role = IF i % 2 = 1 THEN "user" ELSE "assistant"

\* call c sends its request in this step
AskStarts(c) == mAsks[c].pc = "idle" /\ mAsks'[c].pc = "fetching"

\* call c succeeds in this step
AskSucceeds(c) ==
    /\ mAsks[c].pc # "done"
    /\ mAsks'[c].pc = "done"
    /\ mAsks'[c].result.kind = "answer"

\* call c fails in this step
AskFails(c) ==
    /\ mAsks[c].pc # "done"
    /\ mAsks'[c].pc = "done"
    /\ mAsks'[c].result.kind = "throw"

\* the history a request carried: its messages without the new one
CarriedHistory(request) == SubSeq(request.messages, 1, Len(request.messages) - 1)

HistoryStep ==
    \A c \in AskCallers :
        /\ AskStarts(c) =>
              /\ CarriedHistory(mAsks'[c].request) = mMessages
              /\ mAsks'[c].request.messages[Len(mAsks'[c].request.messages)]
                    = Message("user", <<mAsks'[c].question>>, "generated")
              /\ mMessages' = mMessages
        /\ AskSucceeds(c) =>
              /\ Len(mMessages') = Len(mMessages) + 2
              /\ SubSeq(mMessages', 1, Len(mMessages)) = mMessages
              /\ mMessages'[Len(mMessages) + 1].role = "user"
              /\ mMessages'[Len(mMessages) + 1].content = <<mAsks[c].question>>
              /\ mMessages'[Len(mMessages) + 2].role = "assistant"
              /\ mMessages'[Len(mMessages) + 2].content = mAsks'[c].result.answer
              /\ (mMessages = CarriedHistory(mAsks[c].request)) =>
                    SubSeq(mMessages', 1, Len(mMessages) + 1) = mAsks[c].request.messages
        /\ AskFails(c) => mMessages' = mMessages

\* C12: the stored history is u1, a1, ..., uk, ak of the asks that succeeded,
\* in call order; each request carries the whole stored history followed by
\* the new user message; a success appends the question and its answer, a
\* failure appends nothing.
C12_OrderedHistory == []Alternates(mMessages) /\ [][HistoryStep]_vars

\* the second of two asks with different questions has succeeded, and its
\* request carried the first exchange
C12_Witness ==
    \E c \in AskCallers :
        /\ mAsks[c].pc = "done"
        /\ mAsks[c].result.kind = "answer"
        /\ Len(mMessages) = 4
        /\ mMessages[1].content # mMessages[3].content
        /\ Len(mAsks[c].request.messages) = 3
        /\ CarriedHistory(mAsks[c].request) = SubSeq(mMessages, 1, 2)

ThreadStep ==
    /\ \A c \in AskCallers :
          /\ AskStarts(c) => mAsks'[c].request.threadId = mThreadId
          /\ (AskSucceeds(c) /\ mAsks[c].header # Absent) =>
                mThreadId' = mAsks[c].header
          /\ (AskSucceeds(c) /\ mAsks[c].header = Absent) =>
                mThreadId' = mAsks[c].storedAtResponse
    /\ MClearHistory => mThreadId' = Absent

\* C13: a request carries the stored thread token, and none when none is
\* stored; nothing is stored after construction and after clearHistory() until
\* an ask succeeds; after a success whose response had an X-Thread-Id header
\* the stored token is the header value, after a success without the header it
\* is the token that was stored when the response arrived.
C13_ThreadTokenProtocol ==
    /\ [](mMessages = <<>> => mThreadId = Absent)
    /\ [][ThreadStep]_vars

\* an ask whose request carried a token has succeeded on a response without
\* the header, and the token is still stored
C13_Witness ==
    \E c \in AskCallers :
        /\ mAsks[c].pc = "done"
        /\ mAsks[c].result.kind = "answer"
        /\ mAsks[c].header = Absent
        /\ mAsks[c].request.threadId \in ThreadTokens
        /\ mThreadId = mAsks[c].request.threadId

\* the text a line contributes: the payload of a "0:" line that is a JSON
\* string, or its raw characters without surrounding quotes when it is no JSON
TextPayload(line) ==
    IF line.prefix # "0:" THEN <<>>
    ELSE IF line.json = "string" THEN line.payload
    ELSE IF line.json = "invalid" THEN StripQuotes(line.payload)
    ELSE <<>>

\* the text payloads of a stream, concatenated in stream order
RECURSIVE Concatenation(_)
Concatenation(stream) ==
    IF stream = <<>> THEN <<>>
    ELSE TextPayload(Head(stream)) \o Concatenation(Tail(stream))

\* the messageId the "f:" lines supply: that of the last one that parsed
RECURSIVE SuppliedMessageId(_)
SuppliedMessageId(stream) ==
    IF stream = <<>> THEN Absent
    ELSE LET last == stream[Len(stream)]
         IN  IF last.prefix = "f:" /\ last.json = "object"
             THEN last.messageId
             ELSE SuppliedMessageId(SubSeq(stream, 1, Len(stream) - 1))

ClearStep ==
    /\ MClearHistory => (mMessages' = <<>> /\ mThreadId' = Absent)
    /\ \A c \in AskCallers :
          (AskStarts(c) /\ mMessages = <<>> /\ mThreadId = Absent) =>
              /\ Len(mAsks'[c].request.messages) = 1
              /\ mAsks'[c].request.messages[1].role = "user"
              /\ mAsks'[c].request.messages[1].content = <<mAsks'[c].question>>
              /\ mAsks'[c].request.threadId = Absent

\* C15: clearHistory() leaves an empty history and no thread token, and the
\* ask() that follows with nothing stored sends exactly one message, the new
\* question, and no threadId.
C15_ClearHistoryResets == [][ClearStep]_vars

\* clearHistory() has emptied the state after an ask had succeeded, with no
\* ask in flight
C15_Witness ==
    \E c \in AskCallers :
        /\ mAsks[c].pc = "done"
        /\ mAsks[c].result.kind = "answer"
        /\ mAsks[c].newThreadId # Absent
        /\ mMessages = <<>>
        /\ mThreadId = Absent

-----------------------------------------------------------------------------
(* Claims about isAvailable() *)

\* C16: isAvailable() of every backend variant eventually resolves to true or
\* false, and never throws, even when the downstream service never answers.
C16_IsAvailableSettles ==
    \A b \in BACKEND_TYPES :
        (vProbes[b].pc # "idle") ~>
            (vProbes[b].pc = "done" /\ vProbes[b].result \in {"true", "false"})

-----------------------------------------------------------------------------
(* Claims about the EmbeddedKnowledge store *)

\* C17: search(query, limit) returns at most limit results, in hybrid mode and
\* in vector-fallback mode.
C17_SearchWithinLimit ==
    (sPc = "done" /\ sResult.kind = "list") => Len(sResult.list) <= sN

\* C18: the first insertion into a store without a table creates the table and
\* provisions the full-text index in the same call: the table never holds
\* documents without the full-text index.
C18_DocumentsImplyFtsIndex ==
    (diskTable /\ Len(diskRows) > 0) => diskFts

\* C19: addDocuments(docs) is all-or-nothing: when it resolves the document
\* count has grown by exactly the number of docs, when it raises the documents
\* of the store are unchanged, and addDocuments([]) changes nothing.
C19_AddDocumentsAllOrNothing ==
    [][\A docs \in Batches :
          AddDocumentsOf(docs) =>
              /\ kOutcome' = "ok" => countDocuments' = countDocuments + Len(docs)
              /\ kOutcome' = "throw" => diskRows' = diskRows
              /\ docs = <<>> => diskRows' = diskRows]_vars

\* C20: after clear() on an initialized store hasDocuments() is false,
\* countDocuments() is 0 and the table that held the documents is gone, so no
\* search returns them again.
C20_ClearDropsAll ==
    [][(KClear /\ kDb) =>
          /\ ~hasDocuments'
          /\ countDocuments' = 0
          /\ ~kTable'
          /\ diskRows' = <<>>]_vars

\* C21: after close() the store is unusable until it is initialized again
\* (isInitialized() is false, addDocument and addDocuments raise); close()
\* destroys no data, and after a new initialize() the documents of the table
\* are present again with the same count.
C21_CloseThenReinitialize ==
    [][/\ KClose =>
             /\ ~isInitialized'
             /\ diskTable' = diskTable
             /\ diskRows' = diskRows
       /\ ((AddDocument \/ AddDocuments) /\ ~isInitialized) =>
             /\ kOutcome' = "throw"
             /\ diskRows' = diskRows
       /\ (KInitialize /\ kOutcome' = "ok") =>
             /\ isInitialized'
             /\ diskRows' = diskRows
             /\ countDocuments' = Len(diskRows)]_vars

-----------------------------------------------------------------------------
(* EmbeddedBackend's stores *)

\* the calls awaiting something of a store
UsingStore == { c \in LifecycleCallers : lCalls[c].pc \in {"hasDocuments", "generating"} }

\* a store was opened in this step
StoreOpened == Len(lStores') > Len(lStores)

C28_OneOpenStore ==
    \A id \in 1..Len(lStores) : lStores[id] = "open" => id = lKnowledge
-----------------------------------------------------------------------------
(* Metadata from addDocument to search() and retrieve() *)

\* the document offered under a name
DocNamed(name) == CHOOSE d \in DocSet : d.name = name

\* search() has resolved with a list
SearchListed == sPc = "done" /\ sResult.kind = "list"

\* the store holds the single document {name: x, content: hello,
\* metadata: {title: T}} and its table is open
SingleDocumentX ==
    /\ kTable
    /\ diskRows = <<LanceRecord(Doc("x", "hello", Meta(Absent, "T", Absent)))>>

EmbedCalls == { i \in 1..Len(sTrace) : sTrace[i][1] = "embed" }

\* C24: one search() call invokes the embedder once, also when the hybrid
\* query fails and the vector-only fallback runs.
C24_OneEmbeddingPerSearch == Cardinality(EmbedCalls) <= 1
-----------------------------------------------------------------------------
(* The score filter of retrieve() *)

\* the raw hit a returned result was made from: rank i carries content i
RawOf(c) == rHits[c.content]

\* some raw hit is at or above MIN_SCORE or has no score: not the fallback
SomeHitPasses ==
    \E i \in 1..Len(rHits) : rHits[i].score = NoScore \/ rHits[i].score >= MIN_SCORE

\* C25: outside the fallback case no returned result comes from a hit whose
\* score is defined and below MIN_SCORE; the score filter keeps every hit
\* without a score; and when no hit has a score the filter returns the raw
\* hits unchanged and all of them go to dedup-and-cap.
C25_ScoreFilter ==
    (RetrieveResolved /\ rResult.kind = "list") =>
        /\ SomeHitPasses =>
              \A i \in 1..Len(rResult.list) :
                  \/ RawOf(rResult.list[i]).score = NoScore
                  \/ RawOf(rResult.list[i]).score >= MIN_SCORE
        /\ \A i \in 1..Len(rHits) :
              rHits[i].score = NoScore =>
                  \E j \in 1..Len(filterByScore(rHits)) : filterByScore(rHits)[j] = rHits[i]
        /\ (\A i \in 1..Len(rHits) : rHits[i].score = NoScore) =>
              /\ filterByScore(rHits) = rHits
              /\ rResult = List(deduplicateAndClean(rHits, rN))

\* a hit without a score, a hit below MIN_SCORE and a hit at MIN_SCORE: the
\* unscored one is returned, the low one is not
C25_Witness ==
    /\ RetrieveResolved
    /\ rResult.kind = "list"
    /\ \E i, j, k \in 1..Len(rHits) :
          /\ rHits[i].score = NoScore
          /\ rHits[j].score # NoScore /\ rHits[j].score < MIN_SCORE
          /\ rHits[k].score >= MIN_SCORE
          /\ \E x \in 1..Len(rResult.list) : rResult.list[x].content = i
          /\ \A x \in 1..Len(rResult.list) : rResult.list[x].content # j
\* the score filter of retrieve() keeps the hit at rank i of a search() result
KeptByFilter(i) ==
    \E k \in 1..Len(filterByScore(sResult.list)) :
        filterByScore(sResult.list)[k] = sResult.list[i]

\* C26: in both search modes the score filter of retrieve() never drops a
\* hit that search() ranked above a hit it keeps.
C26_FilterRespectsRanking ==
    SearchListed =>
        \A i, j \in 1..Len(sResult.list) :
            (i < j /\ KeptByFilter(j)) => KeptByFilter(i)
-----------------------------------------------------------------------------
(* Overlapping addDocument() calls *)

\* C27: when addDocument() calls overlap on a store without a table, the
\* table is created once and no call fails because the table already exists:
\* a call throws only when the store is not initialized or one of its awaited
\* operations failed, and when all calls have resolved the table holds a row
\* for each of them.
C27_OverlappingAddDocument ==
    /\ \A c \in SeedCallers : addCalls[c].outcome # "exists"
    /\ (\A c \in SeedCallers : addCalls[c].pc = "done" /\ addCalls[c].outcome = "ok")
          => Len(diskRows) >= Cardinality(SeedCallers)
-----------------------------------------------------------------------------
(* MintlifyBackend: clearHistory() during an ask(), and failed asks *)

\* the history was cleared since call c built its request: the stored
\* history is no longer the one the request carried
ClearedInFlight(c) ==
    /\ mAsks[c].pc \in {"fetching", "reading"}
    /\ mMessages # CarriedHistory(mAsks[c].request)

\* C29: an ask() that was in flight when clearHistory() was called leaves,
\* on completing, nothing in the stored history and thread token that
\* originated before the clearHistory().
C29_ClearNotUndone ==
    [][\A c \in AskCallers :
          (ClearedInFlight(c) /\ AskSucceeds(c)) =>
              /\ mMessages' = <<>>
              /\ mThreadId' = Absent]_vars

\* call c has failed and its caller has not yet taken the error
AskFailed(c) == mAsks[c].pc = "done" /\ mAsks[c].result.kind = "throw"

\* C30: an ask() that fails (fetch rejects, the status is not OK, or the body
\* cannot be read) leaves the conversation state unchanged: the stored
\* history is still the one the failed request carried and the thread token
\* the one it sent, unless clearHistory() emptied both; and the next request
\* is built from that state, so a retry carries the same history.
C30_FailedAskKeepsState ==
    /\ [](\A c \in AskCallers :
             AskFailed(c) =>
                 \/ /\ mMessages = CarriedHistory(mAsks[c].request)
                    /\ mThreadId = mAsks[c].request.threadId
                 \/ /\ mMessages = <<>>
                    /\ mThreadId = Absent)
    /\ [][\A c \in AskCallers :
             /\ AskFails(c) => /\ mMessages' = mMessages
                               /\ mThreadId' = mThreadId
             /\ AskStarts(c) => /\ CarriedHistory(mAsks'[c].request) = mMessages
                                /\ mAsks'[c].request.threadId = mThreadId
                                /\ mMessages' = mMessages
                                /\ mThreadId' = mThreadId]_vars

\* a second ask() has failed after a first one succeeded: the history of the
\* first turn and its thread token are still stored
C30_Witness ==
    \E c \in AskCallers :
        /\ AskFailed(c)
        /\ Len(mMessages) = 2
        /\ mThreadId \in ThreadTokens
        /\ mMessages = CarriedHistory(mAsks[c].request)
        /\ mThreadId = mAsks[c].request.threadId
====
